---- MODULE Spec2Model ----
(***************************************************************************)
(* A model of the audio core of noodler: the Synth voice engine with its   *)
(* effect chain (audio/synth.ts, audio/effects.ts) and the BackingTrack    *)
(* lookahead sequencer (audio/backing.ts).                                 *)
(*                                                                         *)
(* The Web Audio graph the code drives is modelled as a set of             *)
(* connections (edges) between nodes; a node is <<name, id>>.              *)
(***************************************************************************)
EXTENDS Integers, Sequences, FiniteSets, TLC

(* ---------------------------- bounds ----------------------------------- *)
\* number of polyphony slots (noteIndex values) the callers use
MaxKeys == 2
\* cap on the oscillators the Synth creates in one run
MaxVoices == 3
\* cap on the effect units the Synth creates in one run
MaxUnits == 3
\* cap on the calls of bend and of the configuration setters in one run
MaxConfigCalls == 1

Keys == 0 .. (MaxKeys - 1)
Freqs == {440}

(* ------------------------- program constants --------------------------- *)
DEFAULT_VOLUME == 50
MIN_FREQUENCY == 20
MAX_FREQUENCY == 20000
MIN_OCTAVE_SHIFT == -2
MAX_OCTAVE_SHIFT == 2

EffectNames == {"delay", "distortion", "vibrato", "filter", "reverb"}

VARIABLES
  synth,     \* the fields of the Synth object
  audio,     \* the Web Audio objects the Synth has created and their wiring
  lastCall   \* the public Synth method that ran last, with its arguments

svars == <<synth, audio, lastCall>>

VARIABLES
  track,      \* the fields of the BackingTrack object
  ctx,        \* the AudioContext clock, the interval timers of the track and
              \* the oscillators whose 'ended' events are followed
  trackCall   \* the BackingTrack method or tick that ran last

bvars == <<track, ctx, trackCall>>

vars == <<synth, audio, lastCall, track, ctx, trackCall>>

(* ------------------------------ nodes ---------------------------------- *)
EffectsInputGainNode == <<"effectsInputGain", 0>>
MasterGainNode == <<"masterGain", 0>>
CompressorNode == <<"compressor", 0>>
DestinationNode == <<"destination", 0>>

NoNote == [oscillator |-> 0, gainNode |-> 0, frequency |-> 0]

\* AudioNode.disconnect(): drops every outgoing connection of the node
Disconnect(edges, node) == {e \in edges : e[1] # node}

RECURSIVE DisconnectAll(_, _)
DisconnectAll(edges, nodes) ==
  IF nodes = <<>> THEN edges
  ELSE DisconnectAll(Disconnect(edges, Head(nodes)), Tail(nodes))

Max(a, b) == IF a >= b THEN a ELSE b
Min(a, b) == IF a <= b THEN a ELSE b

(* --------------------------- effect units ------------------------------ *)
\* the connections each factory makes inside the unit it returns
UnitEdges(kind, u) ==
  CASE kind = "delay" ->
         { << <<"inputGain", u>>, <<"dryGain", u>> >>,
           << <<"dryGain", u>>, <<"outputGain", u>> >>,
           << <<"inputGain", u>>, <<"delay", u>> >>,
           << <<"delay", u>>, <<"feedback", u>> >>,
           << <<"feedback", u>>, <<"delay", u>> >>,
           << <<"delay", u>>, <<"wetGain", u>> >>,
           << <<"wetGain", u>>, <<"outputGain", u>> >> }
    [] kind = "distortion" ->
         { << <<"inputGain", u>>, <<"waveshaper", u>> >>,
           << <<"waveshaper", u>>, <<"outputGain", u>> >> }
    [] kind = "vibrato" ->
         { << <<"lfo", u>>, <<"lfoGain", u>> >>,
           << <<"inputGain", u>>, <<"outputGain", u>> >> }
    [] kind = "filter" ->
         { << <<"lfo", u>>, <<"lfoGain", u>> >>,
           << <<"lfoGain", u>>, <<"filter.frequency", u>> >>,
           << <<"inputGain", u>>, <<"filter", u>> >>,
           << <<"filter", u>>, <<"outputGain", u>> >> }
    [] kind = "reverb" ->
         { << <<"inputGain", u>>, <<"dryGain", u>> >>,
           << <<"dryGain", u>>, <<"outputGain", u>> >>,
           << <<"inputGain", u>>, <<"convolver", u>> >>,
           << <<"convolver", u>>, <<"wetGain", u>> >>,
           << <<"wetGain", u>>, <<"outputGain", u>> >> }

\* the nodes each cleanup() disconnects, in the order it disconnects them
UnitDisconnects(kind, u) ==
  CASE kind = "delay" ->
         << <<"inputGain", u>>, <<"outputGain", u>>, <<"dryGain", u>>,
            <<"wetGain", u>>, <<"delay", u>>, <<"feedback", u>> >>
    [] kind = "distortion" ->
         << <<"inputGain", u>>, <<"waveshaper", u>>, <<"outputGain", u>> >>
    [] kind = "vibrato" ->
         << <<"lfo", u>>, <<"lfoGain", u>>, <<"inputGain", u>>,
            <<"outputGain", u>> >>
    [] kind = "filter" ->
         << <<"lfo", u>>, <<"lfoGain", u>>, <<"filter", u>>,
            <<"inputGain", u>>, <<"outputGain", u>> >>
    [] kind = "reverb" ->
         << <<"inputGain", u>>, <<"dryGain", u>>, <<"wetGain", u>>,
            <<"convolver", u>>, <<"outputGain", u>> >>

\* the factories that start an LFO
HasLfo(kind) == kind \in {"vibrato", "filter"}

\* createDelay / createDistortion / createVibrato / createFilter /
\* createReverb: allocate the next unit, of the given kind
createEffect(a, kind) ==
  LET u == a.units + 1 IN
  [a EXCEPT !.units = u,
            !.cleanups = Append(@, 0),
            !.edges = @ \cup UnitEdges(kind, u),
            !.lfoRunning = IF HasLfo(kind) THEN @ \cup {u} ELSE @]

\* the nodes each factory allocates for the unit it returns
UnitNodes(kind, u) ==
  CASE kind = "delay" ->
         { <<"inputGain", u>>, <<"outputGain", u>>, <<"dryGain", u>>,
           <<"wetGain", u>>, <<"delay", u>>, <<"feedback", u>> }
    [] kind = "distortion" ->
         { <<"inputGain", u>>, <<"outputGain", u>>, <<"waveshaper", u>> }
    [] kind = "vibrato" ->
         { <<"inputGain", u>>, <<"outputGain", u>>, <<"lfo", u>>,
           <<"lfoGain", u>> }
    [] kind = "filter" ->
         { <<"inputGain", u>>, <<"outputGain", u>>, <<"filter", u>>,
           <<"lfo", u>>, <<"lfoGain", u>> }
    [] kind = "reverb" ->
         { <<"inputGain", u>>, <<"outputGain", u>>, <<"dryGain", u>>,
           <<"wetGain", u>>, <<"convolver", u>> }

\* the statements of each cleanup(), in order: lfo.stop() where the factory
\* started an LFO, then the disconnect() calls
CleanupSteps_stopLast(kind, u) ==
  [i \in 1 .. Len(UnitDisconnects(kind, u)) |->
     [op |-> "disconnect", node |-> UnitDisconnects(kind, u)[i]]]
  \o (IF HasLfo(kind) THEN << [op |-> "stop", node |-> <<"lfo", u>>] >>
      ELSE <<>>)

CleanupSteps(kind, u) ==
  (IF HasLfo(kind) THEN << [op |-> "stop", node |-> <<"lfo", u>>] >>
   ELSE <<>>)
  \o [i \in 1 .. Len(UnitDisconnects(kind, u)) |->
        [op |-> "disconnect", node |-> UnitDisconnects(kind, u)[i]]]

\* one statement of a cleanup()
cleanupStep(a, step) ==
  IF step.op = "stop"
  THEN [a EXCEPT !.lfoRunning = @ \ {step.node[2]}]
  ELSE [a EXCEPT !.edges = Disconnect(@, step.node)]

\* the audio objects before each statement of a cleanup() and after the last
RECURSIVE cleanupTrace(_, _)
cleanupTrace(a, steps) ==
  IF steps = <<>> THEN <<a>>
  ELSE <<a>> \o cleanupTrace(cleanupStep(a, Head(steps)), Tail(steps))

\* EffectNode.cleanup() of unit u, which a factory of the given kind made
cleanup(a, kind, u) ==
  LET trace == cleanupTrace(a, CleanupSteps(kind, u))
  IN [trace[Len(trace)] EXCEPT !.cleanups[u] = @ + 1]

(* ------------------------------- Synth --------------------------------- *)
\* A world w is [s |-> the Synth fields, a |-> the audio objects].

clampVolume(value) == Max(0, Min(100, value))

CleanupOrder == <<"delay", "distortion", "vibrato", "filter", "reverb">>
CreateOrder == <<"distortion", "filter", "vibrato", "delay", "reverb">>
ChainOrder == <<"distortion", "filter", "delay", "reverb">>

RECURSIVE cleanupEffects_keepsReference(_, _)
cleanupEffects_keepsReference(w, kinds) ==
  IF kinds = <<>> THEN w
  ELSE LET kind == Head(kinds)
           u == w.s.effectNodes[kind]
           w1 == IF u # 0
                 THEN [s |-> w.s, a |-> cleanup(w.a, kind, u)]
                 ELSE w
       IN cleanupEffects_keepsReference(w1, Tail(kinds))

RECURSIVE cleanupEffects(_, _)
cleanupEffects(w, kinds) ==
  IF kinds = <<>> THEN w
  ELSE LET kind == Head(kinds)
           u == w.s.effectNodes[kind]
           w1 == IF u # 0
                 THEN [s |-> [w.s EXCEPT !.effectNodes[kind] = 0],
                       a |-> cleanup(w.a, kind, u)]
                 ELSE w
       IN cleanupEffects(w1, Tail(kinds))

cleanupAllEffects(w) == cleanupEffects(w, CleanupOrder)

RECURSIVE createEffects(_, _)
createEffects(w, kinds) ==
  IF kinds = <<>> THEN w
  ELSE LET kind == Head(kinds)
           w1 == IF w.s.effectsState[kind]
                 THEN [s |-> [w.s EXCEPT !.effectNodes[kind] =
                                            w.a.units + 1],
                       a |-> createEffect(w.a, kind)]
                 ELSE w
       IN createEffects(w1, Tail(kinds))

\* the edges "effectsInputGain -> first -> ... -> last -> masterGain"
ChainEdges_noMaster(activeEffects) ==
  IF activeEffects = <<>>
  THEN { <<EffectsInputGainNode, MasterGainNode>> }
  ELSE { <<EffectsInputGainNode, <<"inputGain", activeEffects[1]>> >> }
       \cup { << <<"outputGain", activeEffects[i]>>,
                 <<"inputGain", activeEffects[i + 1]>> >> :
              i \in 1 .. (Len(activeEffects) - 1) }

ChainEdges(activeEffects) ==
  IF activeEffects = <<>>
  THEN { <<EffectsInputGainNode, MasterGainNode>> }
  ELSE { <<EffectsInputGainNode, <<"inputGain", activeEffects[1]>> >> }
       \cup { << <<"outputGain", activeEffects[i]>>,
                 <<"inputGain", activeEffects[i + 1]>> >> :
              i \in 1 .. (Len(activeEffects) - 1) }
       \cup { << <<"outputGain", activeEffects[Len(activeEffects)]>>,
                 MasterGainNode >> }

RECURSIVE ActiveEffects(_, _)
ActiveEffects(s, kinds) ==
  IF kinds = <<>> THEN <<>>
  ELSE IF s.effectsState[Head(kinds)]
       THEN <<s.effectNodes[Head(kinds)]>> \o ActiveEffects(s, Tail(kinds))
       ELSE ActiveEffects(s, Tail(kinds))

rebuildEffectChain_keepInput(w) ==
  IF ~w.s.audioContext \/ ~w.s.effectsInputGain \/ ~w.s.masterGain THEN w
  ELSE
    LET w2 == cleanupAllEffects(w)
        w3 == createEffects(w2, CreateOrder)
    IN [s |-> w3.s,
        a |-> [w3.a EXCEPT !.edges =
                 @ \cup ChainEdges(ActiveEffects(w3.s, ChainOrder))]]

rebuildEffectChain(w) ==
  IF ~w.s.audioContext \/ ~w.s.effectsInputGain \/ ~w.s.masterGain THEN w
  ELSE
    LET w1 == [w EXCEPT !.a.edges = Disconnect(@, EffectsInputGainNode)]
        w2 == cleanupAllEffects(w1)
        w3 == createEffects(w2, CreateOrder)
    IN [s |-> w3.s,
        a |-> [w3.a EXCEPT !.edges =
                 @ \cup ChainEdges(ActiveEffects(w3.s, ChainOrder))]]

ensureAudioContext_always(w) ==
    LET w1 == [s |-> [w.s EXCEPT !.audioContext = TRUE,
                                 !.compressor = TRUE,
                                 !.masterGain = TRUE,
                                 !.effectsInputGain = TRUE],
               a |-> [w.a EXCEPT !.contexts = @ + 1,
                                 !.masterGainValue = w.s.volume]]
        w2 == rebuildEffectChain(w1)
    IN [w2 EXCEPT !.a.edges = @ \cup { <<MasterGainNode, CompressorNode>>,
                                       <<CompressorNode, DestinationNode>> }]

ensureAudioContext(w) ==
  IF w.s.audioContext THEN w
  ELSE
    LET w1 == [s |-> [w.s EXCEPT !.audioContext = TRUE,
                                 !.compressor = TRUE,
                                 !.masterGain = TRUE,
                                 !.effectsInputGain = TRUE],
               a |-> [w.a EXCEPT !.contexts = @ + 1,
                                 !.masterGainValue = w.s.volume]]
        w2 == rebuildEffectChain(w1)
    IN [w2 EXCEPT !.a.edges = @ \cup { <<MasterGainNode, CompressorNode>>,
                                       <<CompressorNode, DestinationNode>> }]

\* 2^octaveShift applied to an integer frequency, octaveShift in -2 .. 2
ShiftFrequency_noShift(frequency, octaveShift) == frequency

ShiftFrequency(frequency, octaveShift) ==
  CASE octaveShift = -2 -> frequency \div 4
    [] octaveShift = -1 -> frequency \div 2
    [] octaveShift = 0 -> frequency
    [] octaveShift = 1 -> frequency * 2
    [] octaveShift = 2 -> frequency * 4

noteOff_keepsEntry(w, noteIndex) ==
  LET note == w.s.activeNotes[noteIndex] IN
  IF note = NoNote \/ ~w.s.audioContext THEN w
  ELSE [w EXCEPT !.a.sounding = {n \in @ : n.voice # note.oscillator}]

noteOff(w, noteIndex) ==
  LET note == w.s.activeNotes[noteIndex] IN
  IF note = NoNote \/ ~w.s.audioContext THEN w
  ELSE
    LET vib == w.s.effectNodes["vibrato"]
        edges1 == IF w.s.effectsState["vibrato"] /\ vib # 0
                  THEN w.a.edges \ { << <<"lfoGain", vib>>,
                                        <<"detune", note.oscillator>> >> }
                  ELSE w.a.edges
    IN [s |-> [w.s EXCEPT !.activeNotes[noteIndex] = NoNote],
        a |-> [w.a EXCEPT !.edges = edges1,
                          !.sounding =
                             {n \in @ : n.voice # note.oscillator},
                          !.fading = @ \cup {note.oscillator}]]

\* the fade of released voice v reaches 0 and the stop scheduled for its
\* oscillator takes effect; the Synth has registered no callback on either
tailEnds_clearsTable(w, v) ==
  [w EXCEPT !.a.fading = @ \ {v},
            !.a.ended = @ \cup {v},
            !.s.activeNotes = [k \in Keys |-> NoNote]]

tailEnds(w, v) ==
  [w EXCEPT !.a.fading = @ \ {v},
            !.a.ended = @ \cup {v}]

\* fading holds the released voices whose scheduled stop is still to come,
\* ended those it has come for
\* the part of noteOn after the note at the index, if any, has been stopped
startNote(w1, noteIndex, frequency) ==
  LET shiftedFreq == ShiftFrequency(frequency, w1.s.octaveShift)
      clampedFreq == Max(MIN_FREQUENCY, Min(MAX_FREQUENCY, shiftedFreq))
      v == w1.a.voices + 1
      vib == w1.s.effectNodes["vibrato"]
      vibEdge == IF w1.s.effectsState["vibrato"] /\ vib # 0
                 THEN { << <<"lfoGain", vib>>, <<"detune", v>> >> }
                 ELSE {}
  IN [s |-> [w1.s EXCEPT !.activeNotes[noteIndex] =
                [oscillator |-> v, gainNode |-> v,
                 frequency |-> clampedFreq]],
      a |-> [w1.a EXCEPT !.voices = v,
                         !.sounding =
                            @ \cup {[voice |-> v, key |-> noteIndex,
                                     frequency |-> clampedFreq]},
                         !.edges = @ \cup vibEdge \cup
                            { << <<"oscillator", v>>, <<"gainNode", v>> >>,
                              << <<"gainNode", v>>,
                                 EffectsInputGainNode >> }]]

noteOn_noRelease(w, noteIndex, frequency) ==
  IF w.s.destroyed THEN w
  ELSE
    LET w0 == ensureAudioContext(w) IN
    IF ~w0.s.audioContext \/ ~w0.s.effectsInputGain THEN w0
    ELSE startNote(w0, noteIndex, frequency)

noteOn(w, noteIndex, frequency) ==
  IF w.s.destroyed THEN w
  ELSE
    LET w0 == ensureAudioContext(w) IN
    IF ~w0.s.audioContext \/ ~w0.s.effectsInputGain THEN w0
    ELSE
      LET w1 == IF w0.s.activeNotes[noteIndex] # NoNote
                THEN noteOff(w0, noteIndex)
                ELSE w0
      IN startNote(w1, noteIndex, frequency)

\* the keys of activeNotes, in insertion order (the order Map.keys() visits)
ActiveKeys(w) ==
  LET live == {k \in Keys : w.s.activeNotes[k] # NoNote}
      ids == {w.s.activeNotes[k].oscillator : k \in live}
      RECURSIVE Ordered(_)
      Ordered(rest) ==
        IF rest = {} THEN <<>>
        ELSE LET lo == CHOOSE v \in rest : \A x \in rest : v <= x
                 k == CHOOSE j \in live : w.s.activeNotes[j].oscillator = lo
             IN <<k>> \o Ordered(rest \ {lo})
  IN Ordered(ids)

RECURSIVE noteOffEach(_, _)
noteOffEach(w, keys) ==
  IF keys = <<>> THEN w
  ELSE noteOffEach(noteOff(w, Head(keys)), Tail(keys))

stopAll_firstOnly(w) ==
  IF ActiveKeys(w) = <<>> THEN w ELSE noteOff(w, Head(ActiveKeys(w)))

stopAll(w) == noteOffEach(w, ActiveKeys(w))

\* toggleDelay, toggleDistortion, toggleFilter and toggleReverb share one
\* body, which differs only in the flag it sets
toggleEffect_noGuard(w, kind, enabled) ==
  LET w1 == [w EXCEPT !.s.effectsState[kind] = enabled] IN
  IF w1.s.audioContext THEN rebuildEffectChain(w1) ELSE w1

toggleEffect(w, kind, enabled) ==
  IF w.s.effectsState[kind] = enabled THEN w
  ELSE
    LET w1 == [w EXCEPT !.s.effectsState[kind] = enabled] IN
    IF w1.s.audioContext THEN rebuildEffectChain(w1) ELSE w1

toggleVibrato_noRebuild(w, enabled) ==
  IF w.s.effectsState["vibrato"] = enabled THEN w
  ELSE [w EXCEPT !.s.effectsState["vibrato"] = enabled]

toggleVibrato(w, enabled) ==
  IF w.s.effectsState["vibrato"] = enabled THEN w
  ELSE
    LET w1 == [w EXCEPT !.s.effectsState["vibrato"] = enabled] IN
    IF ~w1.s.audioContext THEN w1
    ELSE
      LET w2 == rebuildEffectChain(w1)
          vib == w2.s.effectNodes["vibrato"]
          notes == {w2.s.activeNotes[k].oscillator :
                      k \in {j \in Keys : w2.s.activeNotes[j] # NoNote}}
          detunes == { << <<"lfoGain", vib>>, <<"detune", v>> >> :
                       v \in notes }
      IN IF vib = 0 THEN w2
         ELSE IF enabled
              THEN [w2 EXCEPT !.a.edges = @ \cup detunes]
              ELSE [w2 EXCEPT !.a.edges = @ \ detunes]

setWaveform(w, type) == [w EXCEPT !.s.waveform = type]

setVolume_storesOnly(w, value) ==
  [w EXCEPT !.s.volume = clampVolume(value)]

setVolume(w, value) ==
  LET w1 == [w EXCEPT !.s.volume = clampVolume(value)] IN
  IF w1.s.masterGain /\ w1.s.audioContext
  THEN [w1 EXCEPT !.a.masterGainValue = w1.s.volume]
  ELSE w1

\* detune holds, for each oscillator bent, the value last set on its detune
bend_noGuard(w, noteIndex, cents) ==
  LET note == w.s.activeNotes[noteIndex] IN
  [w EXCEPT !.a.detune =
     {d \in @ : d.voice # note.oscillator}
       \cup {[voice |-> note.oscillator, cents |-> cents]}]

bend(w, noteIndex, cents) ==
  LET note == w.s.activeNotes[noteIndex] IN
  IF note = NoNote \/ ~w.s.audioContext THEN w
  ELSE [w EXCEPT !.a.detune =
          {d \in @ : d.voice # note.oscillator}
            \cup {[voice |-> note.oscillator, cents |-> cents]}]

setOctaveShift(w, octaves) ==
  [w EXCEPT !.s.octaveShift =
     Max(MIN_OCTAVE_SHIFT, Min(MAX_OCTAVE_SHIFT, octaves))]

destroy_noClose(w) ==
  IF w.s.destroyed THEN w
  ELSE
    LET w1 == [w EXCEPT !.s.destroyed = TRUE]
        w2 == stopAll(w1)
        w3 == cleanupAllEffects(w2)
    IN [w3 EXCEPT !.s.audioContext = FALSE,
                  !.s.masterGain = FALSE,
                  !.s.compressor = FALSE,
                  !.s.effectsInputGain = FALSE,
                  !.s.activeNotes = [k \in Keys |-> NoNote]]

destroy(w) ==
  IF w.s.destroyed THEN w
  ELSE
    LET w1 == [w EXCEPT !.s.destroyed = TRUE]
        w2 == stopAll(w1)
        w3 == cleanupAllEffects(w2)
        w4 == IF w3.s.audioContext
              THEN [s |-> [w3.s EXCEPT !.audioContext = FALSE],
                    a |-> [w3.a EXCEPT !.closed = @ + 1]]
              ELSE w3
    IN [w4 EXCEPT !.s.masterGain = FALSE,
                  !.s.compressor = FALSE,
                  !.s.effectsInputGain = FALSE,
                  !.s.activeNotes = [k \in Keys |-> NoNote]]

(* ------------------------ Synth: state machine ------------------------- *)
World == [s |-> synth, a |-> audio]

getActiveNoteCount(s) ==
  Cardinality({k \in Keys : s.activeNotes[k] # NoNote})

NumEnabled(s) == Cardinality({e \in EffectNames : s.effectsState[e]})

\* The record of a call: its arguments, whether the Synth was destroyed
\* before it, the note count and the occupancy of its key before it, whether a toggle asked for the value the flag
\* already had and, for a noteOff that directly follows a noteOn of the
\* same key, the note count and occupancy before that noteOn.
Call(op, key, effect, enabled) ==
  LET pair == op = "noteOff" /\ lastCall.op = "noteOn" /\ lastCall.key = key
  IN [op |-> op, key |-> key, effect |-> effect, enabled |-> enabled,
      value |-> 0, preDestroyed |-> synth.destroyed,
      same |-> IF effect \in EffectNames
               THEN synth.effectsState[effect] = enabled ELSE FALSE,
      preCount |-> getActiveNoteCount(synth),
      preHad |-> IF key \in Keys THEN synth.activeNotes[key] # NoNote
                 ELSE FALSE,
      afterOn |-> pair,
      onPreCount |-> IF pair THEN lastCall.preCount ELSE 0,
      onPreHad |-> IF pair THEN lastCall.preHad ELSE FALSE]

\* new Synth(): the fields after the constructor
NewSynth ==
  [audioContext |-> FALSE, masterGain |-> FALSE,
   compressor |-> FALSE, effectsInputGain |-> FALSE,
   activeNotes |-> [k \in Keys |-> NoNote],
   waveform |-> "sine", volume |-> clampVolume(DEFAULT_VOLUME),
   destroyed |-> FALSE, octaveShift |-> 0,
   effectsState |-> [e \in EffectNames |-> FALSE],
   effectNodes |-> [e \in EffectNames |-> 0]]

\* no audio object exists yet
NoAudio ==
  [edges |-> {}, units |-> 0, cleanups |-> <<>>,
   lfoRunning |-> {}, voices |-> 0, sounding |-> {},
   contexts |-> 0, closed |-> 0, masterGainValue |-> 0,
   detune |-> {}, configCalls |-> 0, fading |-> {}, ended |-> {}]

SynthInit ==
  /\ synth = NewSynth
  /\ audio = NoAudio
  /\ lastCall = [op |-> "new", key |-> -1, effect |-> "", enabled |-> FALSE,
                 value |-> 0, preDestroyed |-> FALSE, same |-> FALSE, preCount |-> 0, preHad |-> FALSE,
                 afterOn |-> FALSE, onPreCount |-> 0, onPreHad |-> FALSE]

\* the caps on created objects
RoomFor(w) ==
  /\ w.a.voices <= MaxVoices
  /\ w.a.units <= MaxUnits

Step(w) ==
  /\ RoomFor(w)
  /\ synth' = w.s
  /\ audio' = w.a
  /\ UNCHANGED bvars

NoteOn(k, f) ==
  /\ Step(noteOn(World, k, f))
  /\ lastCall' = [Call("noteOn", k, "", FALSE) EXCEPT !.value = f]

NoteOff(k) ==
  /\ Step(noteOff(World, k))
  /\ lastCall' = Call("noteOff", k, "", FALSE)

StopAll ==
  /\ Step(stopAll(World))
  /\ lastCall' = Call("stopAll", -1, "", FALSE)

ToggleDelay(enabled) ==
  /\ Step(toggleEffect(World, "delay", enabled))
  /\ lastCall' = Call("toggle", -1, "delay", enabled)

ToggleDistortion(enabled) ==
  /\ Step(toggleEffect(World, "distortion", enabled))
  /\ lastCall' = Call("toggle", -1, "distortion", enabled)

ToggleVibrato(enabled) ==
  /\ Step(toggleVibrato(World, enabled))
  /\ lastCall' = Call("toggle", -1, "vibrato", enabled)

ToggleFilter(enabled) ==
  /\ Step(toggleEffect(World, "filter", enabled))
  /\ lastCall' = Call("toggle", -1, "filter", enabled)

ToggleReverb(enabled) ==
  /\ Step(toggleEffect(World, "reverb", enabled))
  /\ lastCall' = Call("toggle", -1, "reverb", enabled)

Destroy ==
  /\ Step(destroy(World))
  /\ lastCall' = Call("destroy", -1, "", FALSE)

\* the audio thread, while the context renders, completes the tail of a
\* released voice; no method of the Synth runs
TailEnds(v) ==
  /\ synth.audioContext
  /\ v \in audio.fading
  /\ Step(tailEnds(World, v))
  /\ UNCHANGED lastCall

\* a call of a configuration method, counted against the cap
ConfigStep(w) ==
  /\ audio.configCalls < MaxConfigCalls
  /\ Step([w EXCEPT !.a.configCalls = @ + 1])

Bend(k, cents) ==
  /\ ConfigStep(bend(World, k, cents))
  /\ lastCall' = [Call("bend", k, "", FALSE) EXCEPT !.value = cents]

SetWaveform(type) ==
  /\ ConfigStep(setWaveform(World, type))
  /\ lastCall' = Call("setWaveform", -1, "", FALSE)

SetVolume(value) ==
  /\ ConfigStep(setVolume(World, value))
  /\ lastCall' = [Call("setVolume", -1, "", FALSE) EXCEPT !.value = value]

SetOctaveShift(octaves) ==
  /\ ConfigStep(setOctaveShift(World, octaves))
  /\ lastCall' =
       [Call("setOctaveShift", -1, "", FALSE) EXCEPT !.value = octaves]

\* the arguments the configuration methods are called with
Cents == {100}
Waveforms == {"square"}
VolumeArgs == {-500, 500}
OctaveArgs == {-3, 3}
\* the frequencies and octave shifts the pitch of a note is followed for
PitchFreqs == {12, 440, 8000}
PitchOctaves == {-3, -2, -1, 1, 2, 3}

SynthNext ==
  \/ \E k \in Keys, f \in Freqs : NoteOn(k, f)
  \/ \E k \in Keys : NoteOff(k)
  \/ StopAll
  \/ \E enabled \in BOOLEAN : ToggleDelay(enabled)
  \/ \E enabled \in BOOLEAN : ToggleDistortion(enabled)
  \/ \E enabled \in BOOLEAN : ToggleVibrato(enabled)
  \/ \E enabled \in BOOLEAN : ToggleFilter(enabled)
  \/ \E enabled \in BOOLEAN : ToggleReverb(enabled)
  \/ Destroy

\* the methods that play and configure the Synth, its effects left off
SynthConfigNext ==
  \/ \E k \in Keys, f \in Freqs : NoteOn(k, f)
  \/ \E k \in Keys : NoteOff(k)
  \/ StopAll
  \/ \E k \in Keys, cents \in Cents : Bend(k, cents)
  \/ \E type \in Waveforms : SetWaveform(type)
  \/ \E value \in VolumeArgs : SetVolume(value)
  \/ \E octaves \in OctaveArgs : SetOctaveShift(octaves)
  \/ Destroy

\* every public method of the Synth
SynthApiNext ==
  \/ \E k \in Keys, f \in Freqs : NoteOn(k, f)
  \/ \E k \in Keys : NoteOff(k)
  \/ StopAll
  \/ \E k \in Keys, cents \in Cents : Bend(k, cents)
  \/ \E type \in Waveforms : SetWaveform(type)
  \/ \E value \in VolumeArgs : SetVolume(value)
  \/ \E octaves \in OctaveArgs : SetOctaveShift(octaves)
  \/ \E enabled \in BOOLEAN : ToggleDelay(enabled)
  \/ \E enabled \in BOOLEAN : ToggleDistortion(enabled)
  \/ \E enabled \in BOOLEAN : ToggleVibrato(enabled)
  \/ \E enabled \in BOOLEAN : ToggleFilter(enabled)
  \/ \E enabled \in BOOLEAN : ToggleReverb(enabled)
  \/ Destroy

\* notes played at several frequencies under every octave shift
PitchNext ==
  \/ \E k \in Keys, f \in PitchFreqs : NoteOn(k, f)
  \/ \E k \in Keys : NoteOff(k)
  \/ \E octaves \in PitchOctaves : SetOctaveShift(octaves)
  \/ Destroy
\* notes played and released while the tails of released voices run out
TailNext ==
  \/ \E k \in Keys, f \in Freqs : NoteOn(k, f)
  \/ \E k \in Keys : NoteOff(k)
  \/ StopAll
  \/ \E v \in 1 .. MaxVoices : TailEnds(v)
  \/ Destroy

(* ========================== chord resolution =========================== *)
NOTE_NAMES == <<"C", "C#", "D", "D#", "E", "F", "F#", "G", "G#", "A", "A#", "B">>

NOTE_SEMITONES(note) == (CHOOSE i \in 1 .. 12 : NOTE_NAMES[i] = note) - 1

MAJOR_SCALE_DEGREES == <<0, 2, 4, 5, 7, 9, 11>>

\* String.toUpperCase on the chord strings the model uses
toUpperCase(str) ==
  CASE str = "i" -> "I"
    [] str = "ii" -> "II"
    [] str = "iii" -> "III"
    [] str = "iv" -> "IV"
    [] str = "v" -> "V"
    [] str = "vi" -> "VI"
    [] str = "vii" -> "VII"
    [] str = "Iv" -> "IV"
    [] str = "Am" -> "AM"
    [] str = "Em" -> "EM"
    [] str = "F#m" -> "F#M"
    [] str = "Bb" -> "BB"
    [] str = "c" -> "C"
    [] str = "Xm" -> "XM"
    [] OTHER -> str

\* ROMAN_TO_DEGREE[upperChord]; 0 stands for undefined
ROMAN_TO_DEGREE(upperChord) ==
  CASE upperChord = "I" -> 1
    [] upperChord = "II" -> 2
    [] upperChord = "III" -> 3
    [] upperChord = "IV" -> 4
    [] upperChord = "V" -> 5
    [] upperChord = "VI" -> 6
    [] upperChord = "VII" -> 7
    [] OTHER -> 0

isMajorChord_always(roman) == TRUE

isMajorChord(roman) == roman = toUpperCase(roman)

\* A frequency of the sequencer is represented by its MIDI note number m,
\* which stands for 440 * 2^((m - 69) / 12) Hz.
noteToFrequency(note, octave) == NOTE_SEMITONES(note) + (octave + 1) * 12

NoChord == [ok |-> FALSE, root |-> "", isMajor |-> FALSE, symbol |-> "",
            frequency |-> 0]

\* /^([A-G]#?)m?$/ with the root looked up in NOTE_SEMITONES
parseChordSymbol_defaultsToC(symbol) ==
  IF \E i \in 1 .. 12 : symbol = NOTE_NAMES[i]
  THEN [ok |-> TRUE, root |-> symbol, isMajor |-> TRUE]
  ELSE IF \E i \in 1 .. 12 : symbol = NOTE_NAMES[i] \o "m"
       THEN [ok |-> TRUE,
             root |-> NOTE_NAMES[CHOOSE i \in 1 .. 12 :
                                   symbol = NOTE_NAMES[i] \o "m"],
             isMajor |-> FALSE]
       ELSE [ok |-> TRUE, root |-> "C", isMajor |-> TRUE]

parseChordSymbol(symbol) ==
  IF \E i \in 1 .. 12 : symbol = NOTE_NAMES[i]
  THEN [ok |-> TRUE, root |-> symbol, isMajor |-> TRUE]
  ELSE IF \E i \in 1 .. 12 : symbol = NOTE_NAMES[i] \o "m"
       THEN [ok |-> TRUE,
             root |-> NOTE_NAMES[CHOOSE i \in 1 .. 12 :
                                   symbol = NOTE_NAMES[i] \o "m"],
             isMajor |-> FALSE]
       ELSE [ok |-> FALSE, root |-> "", isMajor |-> FALSE]

\* resolveChord; ok = FALSE stands for the thrown Error
resolveChord(chord, key, octave) ==
  LET upperChord == toUpperCase(chord)
      degree == ROMAN_TO_DEGREE(upperChord)
  IN IF degree # 0
     THEN LET keyIndex == NOTE_SEMITONES(key)
              semitoneOffset == MAJOR_SCALE_DEGREES[degree]
              rootIndex == (keyIndex + semitoneOffset) % 12
              root == NOTE_NAMES[rootIndex + 1]
              isMajor == isMajorChord(chord)
          IN [ok |-> TRUE, root |-> root, isMajor |-> isMajor,
              symbol |-> IF isMajor THEN root ELSE root \o "m",
              frequency |-> noteToFrequency(root, octave)]
     ELSE LET parsed == parseChordSymbol(chord) IN
          IF parsed.ok
          THEN [ok |-> TRUE, root |-> parsed.root, isMajor |-> parsed.isMajor,
                symbol |-> IF parsed.isMajor THEN parsed.root
                           ELSE parsed.root \o "m",
                frequency |-> noteToFrequency(parsed.root, octave)]
          ELSE NoChord

\* resolveChordProgression; ok = FALSE when resolveChord throws for an element
resolveChordProgression(progression, key, octave) ==
  LET chords == [i \in 1 .. Len(progression) |->
                   resolveChord(progression[i], key, octave)]
  IN [ok |-> \A i \in 1 .. Len(progression) : chords[i].ok,
      chords |-> chords]

(* ============================ BackingTrack ============================= *)
\* Times are in thirds of a millisecond; the clock is the AudioContext's
\* currentTime measured from its reading when the track is constructed (the
\* context is handed to the constructor and may have run for any time).

\* the clock stops advancing here
MaxClock == 1800
\* cap on the beats one run of the lookahead loop is followed for
MaxLoop == 8
\* cap on the setter calls of one run
MaxSetterCalls == 1
\* cap on the oscillators created while 'ended' events are followed
MaxOscillators == 4

DEFAULT_TEMPO == 120
DEFAULT_BARS == 1
DEFAULT_SWING == 0
SCHEDULER_INTERVAL_MS == 75
LOOKAHEAD_SECONDS == 300

Styles == {"drone", "quarter", "eighth", "blues", "arpeggio"}
Instruments == {"bass", "pad"}

\* INSTRUMENT_CONFIG[instrument].octaveOffset
OctaveOffset(instrument) ==
  CASE instrument = "bass" -> -1
    [] instrument = "pad" -> 0
    [] instrument = "pluck" -> 0
    [] instrument = "keys" -> 0

\* the configurations the constructor is called with
ConfigTempos == {-300, 300}
ConfigBars == {1, 2}
ConfigSwings == {0, 150}
ConfigChords == {<<"ii", "V">>}
\* the arguments the setters are called with
TempoArgs == {1, 999}
SwingArgs == {-1, 999}
ChordArgs == {<<>>, <<"I", "X">>}
KeyArgs == {"", "G"}
\* the chord lists a track is constructed from and set to when its chords
\* are followed: empty, roman numerals, chord symbols, and lists with an
\* element that is neither
ChordConfigs == {<<>>, <<"ii", "V">>, <<"I", "X">>}
ChordProgressions ==
  {<<>>, <<"vi", "IV", "V">>, <<"Am", "F#m">>, <<"I", "X">>, <<"Bb", "V">>,
   <<"E#">>, <<"I", "IV", "V", "I">>, <<"ii", "V", "I">>}
\* the amounts the audio clock is seen to advance by between two calls
ClockSteps == {300}

\* 60 / tempo seconds
BeatDuration(tempo) ==
  IF tempo > 0 THEN 180000 \div tempo ELSE -(180000 \div (-tempo))

resolveChords(t, progression) ==
  IF Len(progression) = 0
  THEN resolveChordProgression(<<"I">>, t.key, 4)
  ELSE resolveChordProgression(progression, t.key, 4)

updateBeatsPerChord(t) == [t EXCEPT !.beatsPerChord = 4 * t.bars]

getChordTones_majorOnly(chord, octave) ==
  LET root == noteToFrequency(chord.root, octave)
  IN <<root, root + 4, root + 7>>

getChordTones(chord, octave) ==
  LET root == noteToFrequency(chord.root, octave)
      thirdSemitones == IF chord.isMajor THEN 4 ELSE 3
  IN <<root, root + thirdSemitones, root + 7>>

\* (this.swing / 100) * (beatDuration / 3)
swingOffset_unscaled(t, beatDuration) == t.swing * (beatDuration \div 3)

swingOffset(t, beatDuration) == (t.swing * (beatDuration \div 3)) \div 100

getNotesForCurrentBeat(t) ==
  IF t.currentChordIndex + 1 > Len(t.resolvedChords) THEN <<>>
  ELSE
    LET chord == t.resolvedChords[t.currentChordIndex + 1]
        baseOctave == 4 + OctaveOffset(t.instrument)
        rootFreq == noteToFrequency(chord.root, baseOctave)
        beatDuration == BeatDuration(t.tempo)
    IN CASE t.style = "drone" ->
              IF t.currentBeat = 0
              THEN << [time |-> 0, frequency |-> rootFreq,
                       duration |-> (beatDuration * t.beatsPerChord * 19)
                                      \div 20] >>
              ELSE <<>>
         [] t.style = "quarter" ->
              << [time |-> 0, frequency |-> rootFreq,
                  duration |-> (beatDuration * 4) \div 5] >>
         [] t.style = "eighth" ->
              << [time |-> 0, frequency |-> rootFreq,
                  duration |-> (beatDuration * 2) \div 5],
                 [time |-> beatDuration \div 2
                             + swingOffset(t, beatDuration),
                  frequency |-> rootFreq,
                  duration |-> (beatDuration * 7) \div 20] >>
         [] t.style = "blues" ->
              << [time |-> 0, frequency |-> rootFreq,
                  duration |-> beatDuration \div 2],
                 [time |-> (beatDuration * 2) \div 3, frequency |-> rootFreq,
                  duration |-> beatDuration \div 4] >>
         [] t.style = "arpeggio" ->
              LET chordTones == getChordTones(chord, baseOctave)
                  noteIndex == t.currentBeat % Len(chordTones)
              IN << [time |-> 0, frequency |-> chordTones[noteIndex + 1],
                     duration |-> (beatDuration * 4) \div 5] >>

\* A run r of the lookahead loop is [t |-> the track, c |-> the context,
\* beats |-> the start times of the beats scheduled so far, events |-> the
\* notes played so far].

\* an oscillator is named by the least number that names no tracked one
\* createOscillator() returns an object distinct from every oscillator in
\* the table and from every oscillator whose 'ended' event is followed
playNote(r, frequency, startTime, duration) ==
  LET known == r.t.activeOscillators \cup r.c.stale \cup r.c.ended
      osc == CHOOSE n \in 1 .. (Cardinality(known) + 1) :
               /\ n \notin known
               /\ \A m \in 1 .. (n - 1) : m \in known
  IN
  [r EXCEPT !.t.activeOscillators = @ \cup {osc},
            !.events = Append(@, [start |-> startTime,
                                  frequency |-> frequency,
                                  duration |-> duration,
                                  beat |-> Len(r.beats) + 1])]

RECURSIVE playNotes(_, _)
playNotes(r, notes) ==
  IF notes = <<>> THEN r
  ELSE LET note == Head(notes) IN
       playNotes(playNote(r, note.frequency,
                          r.t.nextNoteTime + note.time, note.duration),
                 Tail(notes))

advanceBeat_late(t) ==
  LET t1 == [t EXCEPT !.nextNoteTime = @ + BeatDuration(t.tempo),
                      !.currentBeat = @ + 1]
  IN IF t1.currentBeat > t1.beatsPerChord
     THEN [t1 EXCEPT !.currentBeat = 0,
                     !.currentChordIndex =
                        (@ + 1) % Len(t1.resolvedChords)]
     ELSE t1

advanceBeat(t) ==
  LET t1 == [t EXCEPT !.nextNoteTime = @ + BeatDuration(t.tempo),
                      !.currentBeat = @ + 1]
  IN IF t1.currentBeat >= t1.beatsPerChord
     THEN [t1 EXCEPT !.currentBeat = 0,
                     !.currentChordIndex =
                        (@ + 1) % Len(t1.resolvedChords)]
     ELSE t1

InLookahead_inclusive(nextNoteTime, lookaheadEnd) ==
  nextNoteTime <= lookaheadEnd

\* the condition of the while loop of schedule()
InLookahead(nextNoteTime, lookaheadEnd) == nextNoteTime < lookaheadEnd

\* the while loop of schedule(), followed for at most fuel beats
RECURSIVE scheduleLoop(_, _, _)
scheduleLoop(r, lookaheadEnd, fuel) ==
  IF ~InLookahead(r.t.nextNoteTime, lookaheadEnd) \/ fuel = 0 THEN r
  ELSE
    LET r1 == playNotes(r, getNotesForCurrentBeat(r.t))
        r2 == [r1 EXCEPT !.beats = Append(@, r.t.nextNoteTime),
                         !.t = advanceBeat(r1.t)]
    IN scheduleLoop(r2, lookaheadEnd, fuel - 1)

schedule_fromNow(b) ==
  LET lookaheadEnd == b.c.currentTime + LOOKAHEAD_SECONDS
  IN scheduleLoop([t |-> [b.t EXCEPT !.nextNoteTime = b.c.currentTime],
                   c |-> b.c, beats |-> <<>>, events |-> <<>>],
                  lookaheadEnd, MaxLoop)

schedule(b) ==
  LET lookaheadEnd == b.c.currentTime + LOOKAHEAD_SECONDS
  IN scheduleLoop([t |-> b.t, c |-> b.c, beats |-> <<>>, events |-> <<>>],
                  lookaheadEnd, MaxLoop)

play_ignoresDestroyed(b) ==
  IF b.t.isPlaying THEN b
  ELSE [t |-> [b.t EXCEPT !.isPlaying = TRUE,
                          !.nextNoteTime = b.c.currentTime,
                          !.currentBeat = 0,
                          !.currentChordIndex = 0,
                          !.schedulerInterval = TRUE],
        c |-> [b.c EXCEPT !.intervals = @ + 1,
                          !.period = SCHEDULER_INTERVAL_MS]]

play_restarts(b) ==
  IF b.t.destroyed THEN b
  ELSE [t |-> [b.t EXCEPT !.isPlaying = TRUE,
                          !.nextNoteTime = b.c.currentTime,
                          !.currentBeat = 0,
                          !.currentChordIndex = 0,
                          !.schedulerInterval = TRUE],
        c |-> [b.c EXCEPT !.intervals = @ + 1,
                          !.period = SCHEDULER_INTERVAL_MS]]

play_noTimer(b) ==
  IF b.t.isPlaying \/ b.t.destroyed THEN b
  ELSE [t |-> [b.t EXCEPT !.isPlaying = TRUE,
                          !.nextNoteTime = b.c.currentTime,
                          !.currentBeat = 0,
                          !.currentChordIndex = 0],
        c |-> b.c]

play(b) ==
  IF b.t.isPlaying \/ b.t.destroyed THEN b
  ELSE [t |-> [b.t EXCEPT !.isPlaying = TRUE,
                          !.nextNoteTime = b.c.currentTime,
                          !.currentBeat = 0,
                          !.currentChordIndex = 0,
                          !.schedulerInterval = TRUE],
        c |-> [b.c EXCEPT !.intervals = @ + 1,
                          !.period = SCHEDULER_INTERVAL_MS]]

\* stop() and destroy() take and return [t |-> the track, c |-> the
\* context, stopped |-> the oscillators stop() has been called on]
stop_keepsTimer(b) ==
  IF ~b.t.isPlaying THEN b
  ELSE
    LET b1 == [b EXCEPT !.t.isPlaying = FALSE]
    IN [b1 EXCEPT !.stopped = @ \cup b1.t.activeOscillators,
                  !.t.activeOscillators = {}]

stop(b) ==
  IF ~b.t.isPlaying THEN b
  ELSE
    LET b1 == [b EXCEPT !.t.isPlaying = FALSE]
        b2 == IF b1.t.schedulerInterval
              THEN [b1 EXCEPT !.t.schedulerInterval = FALSE,
                              !.c.intervals = @ - 1]
              ELSE b1
    IN [b2 EXCEPT !.stopped = @ \cup b2.t.activeOscillators,
                  !.t.activeOscillators = {}]

setTempo_upperOnly(t, bpm) ==
  updateBeatsPerChord([t EXCEPT !.tempo = Min(300, bpm)])

setTempo(t, bpm) ==
  updateBeatsPerChord([t EXCEPT !.tempo = Max(20, Min(300, bpm))])

\* key = "" stands for an omitted key; the track is unchanged past the
\* assignment of the key when resolveChords throws
setChords_keepsIndex(t, progression, key) ==
  LET t1 == IF key # "" THEN [t EXCEPT !.key = key] ELSE t
      resolved == resolveChords(t1, progression)
  IN IF ~resolved.ok THEN t1
     ELSE [t1 EXCEPT !.resolvedChords = resolved.chords]

setChords(t, progression, key) ==
  LET t1 == IF key # "" THEN [t EXCEPT !.key = key] ELSE t
      resolved == resolveChords(t1, progression)
  IN IF ~resolved.ok THEN t1
     ELSE [t1 EXCEPT !.resolvedChords = resolved.chords,
                     !.currentChordIndex = 0]

setStyle_restarts(t, style) ==
  updateBeatsPerChord([t EXCEPT !.style = style, !.currentBeat = 0])

setStyle(t, style) == updateBeatsPerChord([t EXCEPT !.style = style])

setSwing(t, swing) == [t EXCEPT !.swing = Max(0, Min(100, swing))]

setInstrument(t, instrument) == [t EXCEPT !.instrument = instrument]

onended_clearsTable(t, oscillator) == [t EXCEPT !.activeOscillators = {}]

\* oscillator.onended = () => { this.activeOscillators.delete(oscillator) }
onended(t, oscillator) ==
  [t EXCEPT !.activeOscillators = @ \ {oscillator}]

trackDestroy_noGuard(b) ==
  LET b1 == stop([b EXCEPT !.t.destroyed = TRUE])
  IN [b1 EXCEPT !.c.disconnects = @ + 1]

trackDestroy(b) ==
  IF b.t.destroyed THEN b
  ELSE LET b1 == stop([b EXCEPT !.t.destroyed = TRUE])
       IN [b1 EXCEPT !.c.disconnects = @ + 1]

(* --------------------- BackingTrack: state machine --------------------- *)
\* new BackingTrack(audioContext, config)
NewTrack(tempo, style, bars, swing, chords) ==
  LET t0 == [tempo |-> tempo, style |-> style, instrument |-> "bass",
             bars |-> bars, swing |-> Max(0, Min(100, swing)), key |-> "C",
             resolvedChords |-> <<>>, isPlaying |-> FALSE,
             destroyed |-> FALSE, schedulerInterval |-> FALSE,
             nextNoteTime |-> 0, currentBeat |-> 0, currentChordIndex |-> 0,
             beatsPerChord |-> 0, activeOscillators |-> {}]
  IN updateBeatsPerChord(
       [t0 EXCEPT !.resolvedChords = resolveChords(t0, chords).chords])

\* the play session: the clock value play() read, the start times of the
\* beats scheduled since, and the beat duration in force for each
NoSession == [start |-> 0, beats |-> <<>>, durations |-> <<>>]

NoTick == [now |-> 0, N |-> 0, currentBeat |-> 0, currentChordIndex |-> 0,
           beats |-> <<>>, events |-> <<>>, completed |-> TRUE,
           stopped |-> {}, value |-> 0,
           progression |-> <<>>, key |-> "", threw |-> FALSE,
           preDestroyed |-> FALSE, session |-> NoSession]

TrackCall(op) ==
  [NoTick EXCEPT !.session = trackCall.session] @@ [op |-> op]

BackingInit ==
  /\ \E tempo \in ConfigTempos, bars \in ConfigBars,
        swing \in ConfigSwings, chords \in ConfigChords :
       track = NewTrack(tempo, "quarter", bars, swing, chords)
  /\ ctx = [currentTime |-> 0, intervals |-> 0, period |-> 0,
            disconnects |-> 0, setterCalls |-> 0,
            stale |-> {}, ended |-> {}]
  /\ trackCall = NoTick @@ [op |-> "new"]

\* new BackingTrack(audioContext, {tempo: 300, chords}); a construction in
\* which resolveChords throws leaves no track
ChordsInit ==
  /\ \E chords \in ChordConfigs :
       /\ resolveChords([key |-> "C"], chords).ok
       /\ track = NewTrack(300, "quarter", DEFAULT_BARS, DEFAULT_SWING, chords)
  /\ ctx = [currentTime |-> 0, intervals |-> 0, period |-> 0,
            disconnects |-> 0, setterCalls |-> 0,
            stale |-> {}, ended |-> {}]
  /\ trackCall = NoTick @@ [op |-> "new"]

\* a run of the lookahead loop that never leaves the loop ends the run
Responsive ==
  /\ trackCall.completed
  /\ UNCHANGED svars

\* a setter call, counted against the cap
CountSetter ==
  /\ ctx.setterCalls < MaxSetterCalls
  /\ ctx' = [ctx EXCEPT !.setterCalls = @ + 1]

Play ==
  /\ Responsive
  /\ LET b == play([t |-> track, c |-> ctx])
     IN track' = b.t /\ ctx' = b.c
  /\ trackCall' =
       [TrackCall("play") EXCEPT
          !.session = IF track.isPlaying \/ track.destroyed THEN @
                      ELSE [NoSession EXCEPT !.start = ctx.currentTime]]

Stop ==
  /\ Responsive
  /\ LET b == stop([t |-> track, c |-> ctx, stopped |-> {}])
     IN /\ track' = b.t
        /\ ctx' = b.c
        /\ trackCall' = [TrackCall("stop") EXCEPT !.stopped = b.stopped]

SetTempo(bpm) ==
  /\ Responsive
  /\ track' = setTempo(track, bpm)
  /\ trackCall' = [TrackCall("setTempo") EXCEPT !.value = bpm]
  /\ CountSetter

SetChords(progression, key) ==
  /\ Responsive
  /\ track' = setChords(track, progression, key)
  /\ trackCall' =
       [TrackCall("setChords") EXCEPT
          !.progression = progression,
          !.key = key,
          !.currentChordIndex = track.currentChordIndex,
          !.threw = ~resolveChords(setChords(track, progression, key),
                                   progression).ok]
  /\ CountSetter

SetStyle(style) ==
  /\ Responsive
  /\ track' = setStyle(track, style)
  /\ trackCall' = TrackCall("setStyle")
  /\ CountSetter

SetSwing(swing) ==
  /\ Responsive
  /\ track' = setSwing(track, swing)
  /\ trackCall' = [TrackCall("setSwing") EXCEPT !.value = swing]
  /\ CountSetter

SetInstrument(instrument) ==
  /\ Responsive
  /\ track' = setInstrument(track, instrument)
  /\ trackCall' = TrackCall("setInstrument")
  /\ CountSetter

TrackDestroy ==
  /\ Responsive
  /\ LET b == trackDestroy([t |-> track, c |-> ctx, stopped |-> {}])
     IN /\ track' = b.t
        /\ ctx' = b.c
        /\ trackCall' = [TrackCall("destroy") EXCEPT
                           !.stopped = b.stopped,
                           !.preDestroyed = track.destroyed]

\* the callback of a live interval timer runs schedule()
Tick ==
  /\ Responsive
  /\ ctx.intervals > 0
  /\ LET r == schedule([t |-> track, c |-> ctx])
     IN /\ track' = r.t
        /\ ctx' = r.c
        /\ trackCall' =
             [op |-> "tick", now |-> ctx.currentTime,
              N |-> track.nextNoteTime, currentBeat |-> track.currentBeat,
              currentChordIndex |-> track.currentChordIndex,
              beats |-> r.beats, events |-> r.events,
              completed |-> ~InLookahead(r.t.nextNoteTime,
                               ctx.currentTime + LOOKAHEAD_SECONDS),
              stopped |-> {}, value |-> 0,
              progression |-> <<>>, key |-> "", threw |-> FALSE,
              preDestroyed |-> FALSE,
              session |->
                [trackCall.session EXCEPT
                   !.beats = @ \o r.beats,
                   !.durations =
                      @ \o [i \in 1 .. Len(r.beats) |->
                              BeatDuration(track.tempo)]]]

\* stop(), the oscillators it stopped being followed until they end
VoiceStop ==
  /\ Responsive
  /\ LET b == stop([t |-> track, c |-> ctx, stopped |-> {}])
     IN /\ track' = b.t
        /\ ctx' = [b.c EXCEPT !.stale = @ \cup b.stopped]
        /\ trackCall' = [TrackCall("stop") EXCEPT !.stopped = b.stopped]

\* a tick, while fewer than MaxOscillators oscillators have been created
VoiceTick ==
  /\ Cardinality(track.activeOscillators \cup ctx.stale \cup ctx.ended)
       < MaxOscillators
  /\ Tick

\* the 'ended' event of an oscillator that has played to its end, or that
\* stop() has stopped, runs the callback playNote registered on it
Ended(oscillator) ==
  /\ Responsive
  /\ oscillator \in track.activeOscillators \cup ctx.stale
  /\ track' = onended(track, oscillator)
  /\ ctx' = [ctx EXCEPT !.stale = @ \ {oscillator},
                        !.ended = @ \cup {oscillator}]
  /\ trackCall' = [TrackCall("ended") EXCEPT
                     !.value = oscillator,
                     !.stopped = ctx.stale \cap {oscillator}]

\* the audio clock advances between two calls
AdvanceClock(d) ==
  /\ Responsive
  /\ ctx.currentTime + d <= MaxClock
  /\ ctx' = [ctx EXCEPT !.currentTime = @ + d]
  /\ UNCHANGED <<track, trackCall>>

BackingNext ==
  \/ Play
  \/ Stop
  \/ \E bpm \in TempoArgs : SetTempo(bpm)
  \/ \E progression \in ChordArgs, key \in KeyArgs :
       SetChords(progression, key)
  \/ \E style \in Styles : SetStyle(style)
  \/ \E swing \in SwingArgs : SetSwing(swing)
  \/ \E instrument \in Instruments : SetInstrument(instrument)
  \/ TrackDestroy
  \/ Tick
  \/ \E d \in ClockSteps : AdvanceClock(d)

(* --------------------------- specifications ---------------------------- *)
\* the track a default configuration constructs
BackingIdle ==
  /\ track = NewTrack(DEFAULT_TEMPO, "quarter", DEFAULT_BARS, DEFAULT_SWING,
                      <<"I">>)
  /\ ctx = [currentTime |-> 0, intervals |-> 0, period |-> 0,
            disconnects |-> 0, setterCalls |-> 0,
            stale |-> {}, ended |-> {}]
  /\ trackCall = NoTick @@ [op |-> "new"]

SynthSpecInit == SynthInit /\ BackingIdle

\* a Synth driven by its callers
SynthSpec == SynthSpecInit /\ [][SynthNext]_vars

\* a Synth played and configured by its callers
SynthConfigSpec == SynthSpecInit /\ [][SynthConfigNext]_vars

\* a Synth driven through every public method
SynthApiSpec == SynthSpecInit /\ [][SynthApiNext]_vars

\* a Synth whose notes are played at several pitches
PitchSpec == SynthSpecInit /\ [][PitchNext]_vars

\* a Synth whose released voices fade out while it is played
TailSpec == SynthSpecInit /\ [][TailNext]_vars

BackingSpecInit == BackingInit /\ SynthInit

\* the clamping setters of the Synth and of the BackingTrack
SetterNext ==
  \/ \E value \in VolumeArgs : SetVolume(value)
  \/ \E octaves \in OctaveArgs : SetOctaveShift(octaves)
  \/ \E bpm \in TempoArgs : SetTempo(bpm)
  \/ \E swing \in SwingArgs : SetSwing(swing)

\* a new Synth and a new BackingTrack whose clamping setters are called
SetterSpec == BackingSpecInit /\ [][SetterNext]_vars

\* the chords of a track are set while it is idle and while it plays
ChordsNext ==
  \/ Play
  \/ Stop
  \/ \E progression \in ChordProgressions, key \in KeyArgs :
       SetChords(progression, key)
  \/ Tick
  \/ \E d \in ClockSteps : AdvanceClock(d)

ChordsSpecInit == ChordsInit /\ SynthInit

\* a BackingTrack whose chords are set by its callers
ChordsSpec == ChordsSpecInit /\ [][ChordsNext]_vars

\* new BackingTrack(audioContext, {tempo: 300, chords: ['ii', 'V']})
VoicesInit ==
  /\ track = NewTrack(300, "quarter", DEFAULT_BARS, DEFAULT_SWING,
                      <<"ii", "V">>)
  /\ ctx = [currentTime |-> 0, intervals |-> 0, period |-> 0,
            disconnects |-> 0, setterCalls |-> 0,
            stale |-> {}, ended |-> {}]
  /\ trackCall = NoTick @@ [op |-> "new"]

VoicesNext ==
  \/ Play
  \/ VoiceStop
  \/ VoiceTick
  \/ \E oscillator \in 1 .. MaxOscillators + MaxLoop : Ended(oscillator)
  \/ \E d \in ClockSteps : AdvanceClock(d)

VoicesSpecInit == VoicesInit /\ SynthInit

\* a BackingTrack whose oscillators are followed until they end
VoicesSpec == VoicesSpecInit /\ [][VoicesNext]_vars

\* a BackingTrack driven by its callers, its timer and the audio clock
BackingSpec == BackingSpecInit /\ [][BackingNext]_vars

(* ============================ Synth claims ============================= *)

\* x brought into lo .. hi
Clamped(lo, hi, x) == IF x < lo THEN lo ELSE IF x > hi THEN hi ELSE x

\* the voices that sound (started, release not yet scheduled) at key k
SoundingAt(k) == {n.voice : n \in {m \in audio.sounding : m.key = k}}

\* C1: at most one Note per key. In every reachable state the voices still
\* sounding at a key are exactly the one the note table records for it (none
\* when the key is free); a noteOn on an occupied key ends the previous voice
\* and leaves one voice there, and the active-note count does not grow.
C1_OneNotePerKey ==
  /\ \A k \in Keys :
       /\ Cardinality(SoundingAt(k)) <= 1
       /\ SoundingAt(k) = IF synth.activeNotes[k] = NoNote THEN {}
                          ELSE {synth.activeNotes[k].oscillator}
  /\ (lastCall.op = "noteOn" /\ lastCall.preHad) =>
       /\ synth.activeNotes[lastCall.key] # NoNote
       /\ getActiveNoteCount(synth) = lastCall.preCount

C1_Witness ==
  /\ lastCall.op = "noteOn"
  /\ lastCall.preHad
  /\ getActiveNoteCount(synth) = 2

\* C2 as stated: after noteOn(k, f) directly followed by noteOff(k) the
\* active-note count equals its value before the noteOn, in every state.
C2_Original ==
  lastCall.afterOn => getActiveNoteCount(synth) = lastCall.onPreCount

\* C2 as amended: after noteOn(k, f) directly followed by noteOff(k) the
\* active-note count equals its value before the noteOn when key k was free
\* before the noteOn, and that value minus one when k already sounded.
C2_CountAfterOnOff ==
  lastCall.afterOn =>
    getActiveNoteCount(synth) =
      lastCall.onPreCount - (IF lastCall.onPreHad THEN 1 ELSE 0)

C2_Witness ==
  /\ lastCall.afterOn
  /\ lastCall.preHad
  /\ ~lastCall.onPreHad
  /\ lastCall.onPreCount = 1
  /\ getActiveNoteCount(synth) = 1

\* the connections that leave the chain input or a unit's output, or enter
\* the master gain or a unit's input
SerialEdges ==
  {e \in audio.edges :
     \/ e[1] = EffectsInputGainNode
     \/ e[2] = MasterGainNode
     \/ e[1][1] = "outputGain"
     \/ e[2][1] = "inputGain" /\ e[1][1] # "inputGain"}

ChainKinds == {kind \in {"distortion", "filter", "delay", "reverb"} :
                 synth.effectsState[kind]}

\* C3: while the engine is live the serial chain is exactly the enabled
\* subset of distortion, filter, delay, reverb, wired in that order from the
\* chain input to the master gain (chain input -> master when none is
\* enabled); each unit in it is intact; the vibrato unit is not wired in.
C3_SerialChain ==
  synth.audioContext =>
    /\ \A kind \in ChainKinds :
         /\ synth.effectNodes[kind] # 0
         /\ UnitEdges(kind, synth.effectNodes[kind]) \subseteq audio.edges
    /\ \A k1, k2 \in ChainKinds :
         k1 # k2 => synth.effectNodes[k1] # synth.effectNodes[k2]
    /\ SerialEdges = ChainEdges(ActiveEffects(synth, ChainOrder))
    /\ \A e \in audio.edges :
         synth.effectNodes["vibrato"] # 0 =>
           /\ e[2] # <<"inputGain", synth.effectNodes["vibrato"]>>
           /\ e[1] # <<"outputGain", synth.effectNodes["vibrato"]>>

C3_Witness ==
  /\ synth.audioContext
  /\ lastCall.op = "toggle"
  /\ ~lastCall.same
  /\ Cardinality(ChainKinds) = 2
  /\ getActiveNoteCount(synth) >= 1

LiveOscillators ==
  {synth.activeNotes[k].oscillator :
     k \in {j \in Keys : synth.activeNotes[j] # NoNote}}

\* C4: every toggle that rebuilds the chain reconciles vibrato: if vibrato
\* is enabled after the toggle, the lfoGain of the vibrato unit now
\* instantiated is connected to the detune input of every live voice.
C4_VibratoReconciled ==
  (synth.audioContext /\ lastCall.op = "toggle" /\ ~lastCall.same
     /\ synth.effectsState["vibrato"]) =>
    /\ synth.effectNodes["vibrato"] # 0
    /\ \A v \in LiveOscillators :
         << <<"lfoGain", synth.effectNodes["vibrato"]>>, <<"detune", v>> >>
           \in audio.edges

\* C5: a toggle that asks for the value the flag already has changes
\* nothing: the Effects State and the Synth fields are unchanged, no unit
\* is released, no node is allocated and no connection changes.
C5_ToggleSameIsNoOp ==
  [][(lastCall'.op = "toggle" /\ lastCall'.same) =>
       (synth' = synth /\ audio' = audio)]_svars

C5_Witness ==
  /\ lastCall.op = "toggle"
  /\ lastCall.same
  /\ lastCall.enabled
  /\ synth.audioContext
  /\ synth.effectNodes[lastCall.effect] # 0

\* C14 as stated: destroy() is idempotent and AudioContext.close is invoked
\* exactly once: on every destroyed Synth close has been called once.
C14_Original == synth.destroyed => audio.closed = 1

\* C14 as amended: a destroy() on a destroyed Synth changes nothing, and on
\* a destroyed Synth AudioContext.close has been called exactly once when an
\* engine was ever constructed and never when none was (a Synth destroyed
\* before its first noteOn has no engine to release); before destroy() it
\* has not been called.
C14_DestroyIdempotent ==
  [][/\ (lastCall'.op = "destroy" /\ synth.destroyed) =>
          (synth' = synth /\ audio' = audio)
     /\ audio'.closed =
          (IF synth'.destroyed THEN audio'.contexts ELSE 0)
     /\ audio'.closed <= 1]_vars

\* destroy() has been called on a destroyed Synth whose engine had been
\* constructed
C14_Witness ==
  /\ lastCall.op = "destroy"
  /\ lastCall.preDestroyed
  /\ audio.contexts = 1
  /\ audio.closed = 1

\* C15: after destroy() every method other than destroy is ignored: a call
\* on a destroyed Synth creates no engine and leaves the active-note count,
\* the waveform, the volume, the octave shift and the Effects State as they
\* were.
C15_IgnoredAfterDestroy ==
  [][synth.destroyed =>
       /\ audio'.contexts = audio.contexts
       /\ ~synth'.audioContext
       /\ getActiveNoteCount(synth') = getActiveNoteCount(synth)
       /\ synth'.waveform = synth.waveform
       /\ synth'.volume = synth.volume
       /\ synth'.octaveShift = synth.octaveShift
       /\ synth'.effectsState = synth.effectsState]_vars

\* the units the Synth holds a reference to
HeldUnits == {synth.effectNodes[kind] : kind \in EffectNames} \ {0}

\* C16: every Effect Unit the Synth instantiates has its release operation
\* called exactly once: a unit the Synth still holds has not been released,
\* a unit a rebuild or destroy() has let go of has been released once, none
\* is released twice, and after destroy() none is unreleased.
C16_UnitsReleasedOnce ==
  /\ Len(audio.cleanups) = audio.units
  /\ \A u \in 1 .. audio.units :
       /\ audio.cleanups[u] <= 1
       /\ (audio.cleanups[u] = 0) <=> (u \in HeldUnits)
       /\ synth.destroyed => audio.cleanups[u] = 1

\* destroy() on a Synth that had instantiated three units, at least one of
\* them replaced by a rebuild
C16_Witness ==
  /\ lastCall.op = "destroy"
  /\ ~lastCall.preDestroyed
  /\ audio.units = 3
  /\ \A u \in 1 .. audio.units : audio.cleanups[u] = 1

\* C17: the audio engine is constructed lazily and at most once: only a
\* noteOn on a Synth that is not destroyed and has never had an engine
\* constructs one (the configuration methods, the toggles, noteOff, stopAll
\* and destroy never do), such a noteOn always does, and no Synth ever has
\* a second engine.
C17_EngineLazyAndOnce ==
  [][/\ audio'.contexts <= 1
     /\ audio'.contexts # audio.contexts =>
          /\ lastCall'.op = "noteOn"
          /\ ~synth.destroyed
          /\ audio.contexts = 0
     /\ (lastCall'.op = "noteOn" /\ ~lastCall'.preDestroyed) =>
          (audio'.contexts = 1 /\ synth'.audioContext)
     /\ synth'.audioContext => audio'.contexts = 1]_vars

\* a second noteOn, after a configuration call and a toggle, on a Synth
\* whose engine the first noteOn constructed
C17_Witness ==
  /\ lastCall.op = "noteOn"
  /\ audio.voices >= 2
  /\ audio.contexts = 1
  /\ audio.configCalls = 1
  /\ NumEnabled(synth) >= 1

\* a node of world w, its unit number replaced by the flag the unit is held
\* for (voices and the fixed stages keep their names)
KindNode(w, node) ==
  IF node[2] = 0 \/ node[1] \in {"oscillator", "gainNode", "detune"}
  THEN node
  ELSE <<node[1],
         IF \E kind \in EffectNames : w.s.effectNodes[kind] = node[2]
         THEN CHOOSE kind \in EffectNames : w.s.effectNodes[kind] = node[2]
         ELSE "released">>

\* the wiring of world w, units named by their flags
Wiring(w) == {<<KindNode(w, e[1]), KindNode(w, e[2])>> : e \in w.a.edges}

\* the world after the toggles that lead to the Effects State of w are
\* issued on a new Synth and noteOn(noteIndex, frequency) is called then
TogglesThenNoteOn(w, noteIndex, frequency) ==
  noteOn([s |-> [NewSynth EXCEPT !.effectsState = w.s.effectsState],
          a |-> NoAudio],
         noteIndex, frequency)

\* C18: toggles issued before the first noteOn only record the Effects
\* State and allocate no audio node, and the first noteOn builds the chain
\* from the recorded state: while the first voice is the only one ever
\* started and still live, the wiring (the chain and the vibrato connection
\* of that voice) is the one a new Synth gets from the same toggles
\* followed by the noteOn, whether the toggles came before or after it.
C18_TogglesBeforeFirstNote ==
  /\ audio.contexts = 0 =>
       (audio.units = 0 /\ audio.edges = {} /\ audio.voices = 0)
  /\ \A k \in Keys :
       (synth.audioContext /\ audio.voices = 1
          /\ synth.activeNotes[k].oscillator = 1) =>
         Wiring(World) = Wiring(TogglesThenNoteOn(World, k, 440))

\* the audio objects, the count of configuration calls left out
AudioObjects(a) == [a EXCEPT !.configCalls = 0]

\* C19: noteOff(k) and bend(k, c) on a key with no live voice (every key of
\* a Synth whose engine was never constructed is such a key) change nothing:
\* the note table, the configuration, the Effects State and every audio
\* object are as before, and no engine is constructed.
C19_AbsentKeyIgnored ==
  [][(lastCall'.op \in {"noteOff", "bend"} /\ ~lastCall'.preHad) =>
       /\ synth' = synth
       /\ AudioObjects(audio') = AudioObjects(audio)]_vars

\* bend on a free key while another key sounds
C19_Witness ==
  /\ lastCall.op = "bend"
  /\ ~lastCall.preHad
  /\ getActiveNoteCount(synth) = 1
  /\ audio.detune = {}

\* C22: noteOn(key, f) records and sounds the voice at
\* clamp(f x 2^octaveShift, 20, 20000) Hz, with the octave shift in force
\* at the call: four times the frequency the note table records, which is
\* the frequency set on the oscillator, is f x 2^(octaveShift + 2) brought
\* into 80 .. 80000.
C22_NoteFrequency ==
  [][(lastCall'.op = "noteOn" /\ ~synth.destroyed) =>
       LET note == synth'.activeNotes[lastCall'.key]
           scaled == lastCall'.value * 2 ^ (synth.octaveShift + 2)
       IN /\ note # NoNote
          /\ 4 * note.frequency =
               Clamped(4 * MIN_FREQUENCY, 4 * MAX_FREQUENCY, scaled)
          /\ [voice |-> note.oscillator, key |-> lastCall'.key,
              frequency |-> note.frequency] \in audio'.sounding]_vars

\* noteOn(k, 8000) under octave shift 2 has recorded 20000 Hz
C22_Witness ==
  /\ lastCall.op = "noteOn"
  /\ lastCall.value = 8000
  /\ synth.octaveShift = 2
  /\ synth.activeNotes[lastCall.key] # NoNote
  /\ synth.activeNotes[lastCall.key].frequency = MAX_FREQUENCY

\* C29: stopAll() applies noteOff to every key tracked when it is called:
\* whatever the set of live voices, when it returns the active-note count
\* is 0 and no voice is left sounding, and nothing but the note table and
\* the voices has changed; on a Synth with no live voice (one whose engine
\* was never constructed included) it changes nothing at all.
C29_StopAllClears ==
  [][lastCall'.op = "stopAll" =>
       /\ getActiveNoteCount(synth') = 0
       /\ audio'.sounding = {}
       /\ synth' = [synth EXCEPT !.activeNotes = [k \in Keys |-> NoNote]]
       /\ audio'.contexts = audio.contexts
       /\ audio'.units = audio.units
       /\ audio'.voices = audio.voices
       /\ lastCall'.preCount = 0 => audio' = audio]_vars

\* stopAll() has released two live voices
C29_Witness ==
  /\ lastCall.op = "stopAll"
  /\ lastCall.preCount = 2
  /\ getActiveNoteCount(synth) = 0
  /\ audio.sounding = {}

\* stopAll() has been called on a Synth whose engine was never constructed
C29_Uninitialized ==
  /\ lastCall.op = "stopAll"
  /\ audio.contexts = 0
  /\ ~synth.destroyed

\* C30: the asynchronous tail of a released voice mutates no state: when
\* the fade and the scheduled stop of a released voice complete, the note
\* table, the configuration, the Effects State and every audio object but
\* the voice itself are as before; so a voice started at key k during the
\* fade of an earlier voice at k is still in the table afterwards.  (The
\* set of fading voices shrinks only when a tail completes.)
C30_TailMutatesNothing ==
  [][(audio'.fading # audio.fading /\ audio'.fading \subseteq audio.fading)
       => /\ synth' = synth
          /\ lastCall' = lastCall
          /\ audio' = [audio EXCEPT !.fading = audio'.fading,
                                    !.ended = audio'.ended]
          /\ audio'.ended \cup audio'.fading =
               audio.ended \cup audio.fading]_vars

\* noteOn(k) has replaced the first voice, which sounded at k, by the
\* second, and the tail of the first has then completed: the second voice
\* is still in the table at k
C30_Witness ==
  /\ lastCall.op = "noteOn"
  /\ lastCall.preHad
  /\ audio.voices = 2
  /\ 1 \in audio.ended
  /\ synth.activeNotes[lastCall.key] # NoNote
  /\ synth.activeNotes[lastCall.key].oscillator = 2
  /\ [voice |-> 2, key |-> lastCall.key, frequency |-> 440]
       \in audio.sounding

\* C31: whenever the engine is live the master amplitude equals the stored
\* clamped volume: a volume set before the engine exists is applied when
\* the first noteOn creates it, and setVolume on a live engine sets the
\* master amplitude in the same call.
C31_MasterGainIsVolume ==
  synth.audioContext =>
    /\ audio.masterGainValue = synth.volume
    /\ 0 <= synth.volume /\ synth.volume <= 100
    /\ lastCall.op = "setVolume" =>
         audio.masterGainValue = Clamped(0, 100, lastCall.value)

\* setVolume(5) has been called on a live engine with a voice sounding
C31_Witness ==
  /\ lastCall.op = "setVolume"
  /\ lastCall.value = 500
  /\ synth.audioContext
  /\ getActiveNoteCount(synth) >= 1
  /\ audio.masterGainValue = 100

\* a volume set before the first noteOn has been applied by it
C31_SetBeforeEngine ==
  /\ lastCall.op = "noteOn"
  /\ audio.voices = 1
  /\ audio.configCalls = 1
  /\ synth.volume = 0
  /\ audio.masterGainValue = 0

\* the names of the nodes of effect units
UnitNodeNames ==
  {"inputGain", "outputGain", "dryGain", "wetGain", "delay", "feedback",
   "waveshaper", "lfo", "lfoGain", "filter", "convolver"}

\* C33: the release operation of each of the five Effect Units stops the
\* self-driving oscillator (the LFO of vibrato and of filter) before any
\* disconnect, and then disconnects every node the factory allocated: for
\* each unit the Synth holds, were it released now, the LFO would be
\* stopped before each disconnect, the nodes disconnected would be exactly
\* the nodes allocated, and none of them would be left with a connection
\* and no LFO running; and every unit that has been released is in that
\* state.
C33_ReleaseStopsThenDisconnects ==
  /\ \A kind \in EffectNames :
       LET u == synth.effectNodes[kind]
           steps == CleanupSteps(kind, u)
           trace == cleanupTrace(audio, steps)
           last == trace[Len(trace)]
       IN u # 0 =>
            /\ HasLfo(kind) => u \in audio.lfoRunning
            /\ \A i \in 1 .. Len(steps) :
                 steps[i].op = "disconnect" => u \notin trace[i].lfoRunning
            /\ {steps[i].node :
                  i \in {j \in 1 .. Len(steps) : steps[j].op = "disconnect"}}
                 = UnitNodes(kind, u)
            /\ \A e \in last.edges : e[1] \notin UnitNodes(kind, u)
            /\ u \notin last.lfoRunning
            /\ last = [cleanup(audio, kind, u) EXCEPT !.cleanups = audio.cleanups]
  /\ \A u \in 1 .. audio.units :
       audio.cleanups[u] >= 1 =>
         /\ u \notin audio.lfoRunning
         /\ \A e \in audio.edges :
              ~(e[1][2] = u /\ e[1][1] \in UnitNodeNames)

\* a rebuild has released a filter and a vibrato unit and made new ones,
\* whose LFOs run, while a voice sounds
C33_Witness ==
  /\ lastCall.op = "toggle"
  /\ ~lastCall.same
  /\ synth.effectNodes["filter"] # 0
  /\ synth.effectNodes["vibrato"] # 0
  /\ audio.units >= 3
  /\ audio.cleanups[1] = 1
  /\ getActiveNoteCount(synth) >= 1

\* the nodes a signal reaches from the nodes of a set along the connections
RECURSIVE ReachedFrom(_, _)
ReachedFrom(nodes, edges) ==
  LET next == nodes \cup {e[2] : e \in {d \in edges : d[1] \in nodes}}
  IN IF next = nodes THEN nodes ELSE ReachedFrom(next, edges)

\* C34: a change of the effect chain never disconnects a sounding voice:
\* while the engine is live, and so after every toggle issued while notes
\* are live, the oscillator of every live voice is connected to its
\* amplitude node and that node to the chain input, and the signal of the
\* chain input reaches the master gain, which is connected through the
\* limiter to the destination.
C34_VoicesStayConnected ==
  synth.audioContext =>
    /\ \A v \in LiveOscillators :
         /\ << <<"oscillator", v>>, <<"gainNode", v>> >> \in audio.edges
         /\ << <<"gainNode", v>>, EffectsInputGainNode >> \in audio.edges
         /\ DestinationNode \in
              ReachedFrom({ <<"oscillator", v>> }, audio.edges)
    /\ MasterGainNode \in ReachedFrom({EffectsInputGainNode}, audio.edges)
    /\ <<MasterGainNode, CompressorNode>> \in audio.edges
    /\ <<CompressorNode, DestinationNode>> \in audio.edges

\* reverb has been switched while two voices sound and another effect of
\* the chain is on
C34_Witness ==
  /\ lastCall.op = "toggle"
  /\ lastCall.effect = "reverb"
  /\ ~lastCall.same
  /\ synth.audioContext
  /\ getActiveNoteCount(synth) = 2
  /\ Cardinality(ChainKinds) >= 1
  /\ audio.units >= 2

\* C35: in every reachable state an Effect Unit is instantiated for a flag
\* exactly when the engine is live and the flag is enabled: the Synth holds
\* a unit for the flag, of the kind of the flag, unreleased and its own;
\* before the engine is constructed and after destroy() it holds none.
C35_UnitsMatchFlags ==
  /\ \A kind \in EffectNames :
       /\ (synth.effectNodes[kind] # 0) <=>
            (synth.audioContext /\ synth.effectsState[kind])
       /\ synth.effectNodes[kind] # 0 =>
            /\ synth.effectNodes[kind] \in 1 .. audio.units
            /\ audio.cleanups[synth.effectNodes[kind]] = 0
            /\ UnitEdges(kind, synth.effectNodes[kind]) \subseteq audio.edges
  /\ \A k1, k2 \in EffectNames :
       (k1 # k2 /\ synth.effectNodes[k1] # 0) =>
         synth.effectNodes[k1] # synth.effectNodes[k2]
  /\ (audio.contexts = 0 \/ synth.destroyed) => HeldUnits = {}

\* an effect has been switched off on a live engine that keeps vibrato on:
\* one unit is held
C35_Witness ==
  /\ lastCall.op = "toggle"
  /\ ~lastCall.enabled
  /\ ~lastCall.same
  /\ synth.audioContext
  /\ synth.effectsState["vibrato"]
  /\ NumEnabled(synth) = 1
  /\ Cardinality(HeldUnits) = 1

\* a flag has been enabled on a destroyed Synth: no unit
C35_AfterDestroy ==
  /\ synth.destroyed
  /\ NumEnabled(synth) >= 1
  /\ audio.contexts = 1
  /\ HeldUnits = {}

(* ========================= BackingTrack claims ========================= *)
\* The record trackCall describes the latest call: for setTempo and
\* setSwing the value passed, for setChords its arguments, the chord index
\* before it and whether it threw, for stop and destroy the oscillators
\* stop() was called on, for destroy whether the track was destroyed
\* before it, for a tick the clock
\* reading now, the value N of nextNoteTime and the position it started
\* with, the start time of every beat it scheduled and every note it handed
\* to an oscillator.  The clock advancing leaves it alone, so two ticks with
\* nothing but time between them are two successive values of it.

\* the start times of the notes of the latest tick
Starts(call) == {call.events[i].start : i \in 1 .. Len(call.events)}

\* C6: for every sequence of operations and ticks nextNoteTime never
\* decreases, and no note is scheduled at a time earlier than a note already
\* scheduled: no step lowers nextNoteTime, and of two ticks in a row no note
\* of the later one starts before a note of the earlier one.
C6_NextNoteTimeMonotonic ==
  [][/\ track'.nextNoteTime >= track.nextNoteTime
     /\ (trackCall.op = "tick" /\ trackCall'.op = "tick"
           /\ trackCall' # trackCall)
          => \A old \in Starts(trackCall), new \in Starts(trackCall') :
               new >= old]_vars

\* C7: within one tick the notes are scheduled in non-decreasing order of
\* start time, whatever the style, the swing and the tempo: every note
\* starts no later than the note scheduled after it, so every note of a beat
\* starts no later than the first note of the following beat.
C7_TickEventsOrdered ==
  trackCall.op = "tick" =>
    \A i \in 1 .. (Len(trackCall.events) - 1) :
      trackCall.events[i].start <= trackCall.events[i + 1].start

\* C8: a tick with clock reading now schedules a beat exactly while
\* nextNoteTime < now + 100 ms: it schedules a beat if and only if
\* nextNoteTime starts below now + 100 ms, every beat it schedules starts
\* before now + 100 ms, and when the loop is left nextNoteTime is at least
\* now + 100 ms.
C8_LookaheadWindow ==
  trackCall.op = "tick" =>
    LET lookaheadEnd == trackCall.now + LOOKAHEAD_SECONDS IN
    /\ (Len(trackCall.beats) > 0) <=> (trackCall.N < lookaheadEnd)
    /\ \A i \in 1 .. Len(trackCall.beats) : trackCall.beats[i] < lookaheadEnd
    /\ Len(trackCall.beats) < MaxLoop => track.nextNoteTime >= lookaheadEnd

\* a tick that found nextNoteTime exactly at now + 100 ms, and so scheduled
\* nothing, after a tick that had scheduled a beat
C8_Witness ==
  /\ trackCall.op = "tick"
  /\ trackCall.N = trackCall.now + LOOKAHEAD_SECONDS
  /\ trackCall.beats = <<>>
  /\ trackCall.now > 0

\* C9: every note is scheduled ahead of the audio clock: its start time is
\* not earlier than the clock reading of the tick that schedules it, the
\* first beat after play() and the beats of a late tick included.
C9_EventsAheadOfClock ==
  trackCall.op = "tick" =>
    \A i \in 1 .. Len(trackCall.events) :
      trackCall.events[i].start >= trackCall.now

\* the position in the progression, counted in beats
Position(chordIndex, beat, beatsPerChord) == chordIndex * beatsPerChord + beat

\* C10: for bars >= 1, in every reachable state beatsPerChord = 4 x bars,
\* 0 <= currentBeat < beatsPerChord and 0 <= currentChordIndex < the length
\* of the resolved chord list; a tick that scheduled n beats has moved the
\* position n beats on, the beat counter going back to 0 at beatsPerChord and
\* the chord index going on by one modulo the length of the chord list.
C10_BeatAndChordPosition ==
  track.bars >= 1 =>
    LET bpc == track.beatsPerChord
        len == Len(track.resolvedChords)
    IN /\ bpc = 4 * track.bars
       /\ 0 <= track.currentBeat /\ track.currentBeat < bpc
       /\ 0 <= track.currentChordIndex /\ track.currentChordIndex < len
       /\ trackCall.op = "tick" =>
            Position(track.currentChordIndex, track.currentBeat, bpc) =
              (Position(trackCall.currentChordIndex, trackCall.currentBeat,
                        bpc) + Len(trackCall.beats)) % (len * bpc)

\* a tick that left the loop having scheduled the last beat of the first
\* chord: the beat counter is back at 0 and the chord index has gone on
C10_Witness ==
  /\ track.bars >= 1
  /\ trackCall.op = "tick"
  /\ trackCall.completed
  /\ trackCall.beats # <<>>
  /\ trackCall.currentChordIndex = 0
  /\ track.currentChordIndex = 1
  /\ track.currentBeat = 0

\* C11: the lifecycle is idle -> playing -> idle through play and stop, with
\* destroyed terminal: only play, stop and destroy change isActive(), and
\* once destroy() has been called isDestroyed() stays true, isActive() stays
\* false and no timer runs, whatever is called afterwards.
C11_DestroyedIsTerminal ==
  [][/\ track'.isPlaying # track.isPlaying =>
          trackCall'.op \in {"play", "stop", "destroy"}
     /\ (track.isPlaying /\ ~track'.isPlaying) =>
          trackCall'.op \in {"stop", "destroy"}
     /\ track'.destroyed => ~track'.isPlaying /\ ctx'.intervals = 0
     /\ track.destroyed => track'.destroyed]_vars

\* play() has been called on a destroyed track
C11_Witness ==
  /\ track.destroyed
  /\ trackCall.op = "play"
  /\ ~track.isPlaying

\* C12: play() on an idle track that is not destroyed sets the beat counter
\* and the chord index to 0 and nextNoteTime to the current value of the
\* audio clock, and starts one timer of 25 ms; play() on a playing track
\* changes no field (counters and nextNoteTime keep their values) and starts
\* no timer.  (The clock is never left alone by the step that advances it,
\* so a step that ends with a record of play() and leaves the clock alone is
\* a call of play().)
C12_PlayResetsOrIgnores ==
  [][(trackCall'.op = "play" /\ ctx'.currentTime = ctx.currentTime) =>
       /\ (~track.isPlaying /\ ~track.destroyed) =>
            /\ track' = [track EXCEPT !.isPlaying = TRUE,
                                      !.currentBeat = 0,
                                      !.currentChordIndex = 0,
                                      !.nextNoteTime = ctx.currentTime,
                                      !.schedulerInterval = TRUE]
            /\ ctx'.intervals = ctx.intervals + 1
            /\ ctx'.period = SCHEDULER_INTERVAL_MS
       /\ track.isPlaying => (track' = track /\ ctx' = ctx)]_vars

\* play() has been called on a track that was playing: the position and
\* nextNoteTime are those the ticks had reached
C12_Witness ==
  /\ trackCall.op = "play"
  /\ track.isPlaying
  /\ track.currentBeat > 0
  /\ track.nextNoteTime > ctx.currentTime
  /\ ctx.intervals = 1

\* C13: when stop() returns on a playing track no timer is left, stop() has
\* been called on every oscillator the track still tracked, and the set of
\* tracked oscillators is empty; stop() on a track that is not playing
\* changes nothing; and no tick runs on a track that is not playing, so
\* nothing is scheduled between a stop() and the next play().  (A step that
\* ends with a record of stop() and leaves the clock alone is a call of
\* stop().)
C13_StopSilences ==
  [][/\ (trackCall'.op = "stop" /\ ctx'.currentTime = ctx.currentTime) =>
          IF track.isPlaying
          THEN /\ ~track'.isPlaying
               /\ ctx'.intervals = 0
               /\ trackCall'.stopped = track.activeOscillators
               /\ track'.activeOscillators = {}
          ELSE track' = track /\ ctx' = ctx /\ trackCall'.stopped = {}
     /\ (trackCall'.op = "tick" /\ trackCall' # trackCall) =>
          track.isPlaying
     /\ ~track'.isPlaying =>
          (track'.nextNoteTime = track.nextNoteTime
             /\ track'.activeOscillators = {})]_vars

\* stop() has stopped notes that a tick had scheduled
C13_Witness ==
  /\ trackCall.op = "stop"
  /\ Cardinality(trackCall.stopped) >= 2
  /\ track.activeOscillators = {}
  /\ ctx.intervals = 0

\* values below, at the ends of, inside and above each of the four ranges
ProbeValues ==
  {-500, -3, -2, -1, 0, 1, 2, 3, 19, 20, 21, 50, 99, 100, 101, 120, 299,
   300, 301, 500, 999}

\* C20: the volume, octave-shift, swing and tempo setters clamp and are
\* idempotent: after set(x) the getter returns x brought into the range
\* ([0,1], [-2,2], [0,100], [20,300]; the volume is kept in percent), for
\* the value the latest call passed and for every probe value, and setting
\* the value the getter returns changes no field.
C20_SettersClamp ==
  /\ lastCall.op = "setVolume" =>
       synth.volume = Clamped(0, 100, lastCall.value)
  /\ lastCall.op = "setOctaveShift" =>
       synth.octaveShift = Clamped(-2, 2, lastCall.value)
  /\ trackCall.op = "setSwing" =>
       track.swing = Clamped(0, 100, trackCall.value)
  /\ trackCall.op = "setTempo" =>
       track.tempo = Clamped(20, 300, trackCall.value)
  /\ \A x \in ProbeValues :
       /\ setVolume(World, x).s.volume = Clamped(0, 100, x)
       /\ setOctaveShift(World, x).s.octaveShift = Clamped(-2, 2, x)
       /\ setSwing(track, x).swing = Clamped(0, 100, x)
       /\ setTempo(track, x).tempo = Clamped(20, 300, x)
       /\ setVolume(setVolume(World, x), setVolume(World, x).s.volume) =
            setVolume(World, x)
       /\ setOctaveShift(setOctaveShift(World, x),
                         setOctaveShift(World, x).s.octaveShift) =
            setOctaveShift(World, x)
       /\ setSwing(setSwing(track, x), setSwing(track, x).swing) =
            setSwing(track, x)
       /\ setTempo(setTempo(track, x), setTempo(track, x).tempo) =
            setTempo(track, x)

\* setVolume(-5) has left the volume at 0 and setTempo(999) the tempo at 300
C20_Witness ==
  /\ lastCall.op = "setVolume"
  /\ lastCall.value = -500
  /\ synth.volume = 0
  /\ trackCall.op = "setTempo"
  /\ trackCall.value = 999
  /\ track.tempo = 300

\* C21: out-of-range numeric input is clamped whatever path supplies it: in
\* every reachable state, the state a constructor leaves included, the Synth
\* volume is in [0,1] (0 .. 100 percent) and its octave shift in [-2,2], and
\* the BackingTrack tempo is in [20,300] and its swing in [0,100].
C21_ValuesInRange ==
  /\ 0 <= synth.volume /\ synth.volume <= 100
  /\ MIN_OCTAVE_SHIFT <= synth.octaveShift
  /\ synth.octaveShift <= MAX_OCTAVE_SHIFT
  /\ 20 <= track.tempo /\ track.tempo <= 300
  /\ 0 <= track.swing /\ track.swing <= 100

\* the events of the latest tick that belong to the i-th beat it scheduled
BeatEvents(i) ==
  {j \in 1 .. Len(trackCall.events) : trackCall.events[j].beat = i}

\* C23: the number of events of one scheduled beat is fixed by the style in
\* force: drone one event when the beat counter is 0 and none otherwise,
\* quarter one, eighth two, blues two, arpeggio one, whose pitch is the chord
\* tone at position (beat counter mod 3) of root, third (4 semitones above
\* the root for a major chord, 3 for a minor one) and fifth (7 semitones) of
\* the chord the beat falls in.
C23_EventsPerBeat ==
  (trackCall.op = "tick" /\ track.bars >= 1) =>
    \A i \in 1 .. Len(trackCall.beats) :
      LET bpc == track.beatsPerChord
          at == trackCall.currentBeat + i - 1
          counter == at % bpc
          chord == track.resolvedChords[
                     ((trackCall.currentChordIndex + at \div bpc)
                        % Len(track.resolvedChords)) + 1]
          root == noteToFrequency(chord.root, 4 + OctaveOffset(track.instrument))
          tones == <<root, root + (IF chord.isMajor THEN 4 ELSE 3), root + 7>>
          n == Cardinality(BeatEvents(i))
      IN CASE track.style = "drone" -> n = (IF counter = 0 THEN 1 ELSE 0)
           [] track.style = "quarter" -> n = 1
           [] track.style = "eighth" -> n = 2
           [] track.style = "blues" -> n = 2
           [] track.style = "arpeggio" ->
                /\ n = 1
                /\ \A j \in BeatEvents(i) :
                     trackCall.events[j].frequency = tones[(counter % 3) + 1]

\* an arpeggio tick has scheduled the second beat of the chord ii of C (D
\* minor): one event, the third F
C23_Witness ==
  /\ trackCall.op = "tick"
  /\ track.style = "arpeggio"
  /\ trackCall.currentBeat = 1
  /\ trackCall.currentChordIndex = 0
  /\ Len(trackCall.beats) >= 1
  /\ trackCall.events[1].frequency = noteToFrequency("F", 3)

\* a drone tick has scheduled a beat that is not the first of its chord: no
\* event
C23_DroneRest ==
  /\ trackCall.op = "tick"
  /\ track.style = "drone"
  /\ trackCall.currentBeat = 1
  /\ Len(trackCall.beats) = 1
  /\ trackCall.events = <<>>

\* the offset of the j-th event of the latest tick from the start of its beat
Offset(j) ==
  trackCall.events[j].start - trackCall.beats[trackCall.events[j].beat]

\* the last event of the i-th beat of the latest tick
LastOf(i) == CHOOSE j \in BeatEvents(i) : \A m \in BeatEvents(i) : m <= j

\* the notes of a beat of the track at 120 BPM in the given style, with the
\* given swing setting
NotesAt120(style, swing) ==
  getNotesForCurrentBeat([track EXCEPT !.tempo = 120, !.style = style,
                                       !.swing = swing])

\* C24 as stated: with B = 60/tempo (180000/tempo thirds of a millisecond) a
\* quarter beat has its event at offset 0 with duration 0.8 x B, and an
\* eighth beat has its second event at offset B/2 + swing x (B/3), swing
\* being the swing setting of the track (0 .. 100).
C24_Original ==
  trackCall.op = "tick" =>
    \A i \in 1 .. Len(trackCall.beats) :
      /\ track.style = "quarter" =>
           \A j \in BeatEvents(i) :
             /\ Offset(j) = 0
             /\ 5 * track.tempo * trackCall.events[j].duration = 4 * 180000
      /\ track.style = "eighth" =>
           6 * track.tempo * Offset(LastOf(i)) =
             180000 * (3 + 2 * track.swing)

\* C24 as amended: the quarter event is at offset 0 with duration 0.8 x B
\* (0.4 s at 120 BPM), and the second eighth event is at offset
\* B/2 + (swing/100) x (B/3), the swing setting 0 .. 100 being a percentage
\* (0.25 s + (swing/100) x (0.5 s / 3) at 120 BPM: 0.25 s with swing 0,
\* 1/3 s with swing 50, 5/12 s with swing 100).
C24_SwingIsPercentage ==
  /\ trackCall.op = "tick" =>
       \A i \in 1 .. Len(trackCall.beats) :
         /\ track.style = "quarter" =>
              \A j \in BeatEvents(i) :
                /\ Offset(j) = 0
                /\ 5 * track.tempo * trackCall.events[j].duration =
                     4 * 180000
         /\ track.style = "eighth" =>
              600 * track.tempo * Offset(LastOf(i)) =
                180000 * (300 + 2 * track.swing)
  /\ NotesAt120("quarter", track.swing)[1].time = 0
  /\ NotesAt120("quarter", track.swing)[1].duration = 1200
  /\ NotesAt120("eighth", 0)[2].time = 750
  /\ NotesAt120("eighth", 50)[2].time = 1000
  /\ NotesAt120("eighth", 100)[2].time = 1250

\* an eighth tick at tempo 300 with swing 100: the second event of the beat
\* is 5/6 of the beat after the first
C24_Witness ==
  /\ trackCall.op = "tick"
  /\ track.style = "eighth"
  /\ track.swing = 100
  /\ track.tempo = 300
  /\ Len(trackCall.events) = 2
  /\ Offset(2) = 500

\* C25: setStyle, setInstrument, setSwing and setTempo leave the playback
\* position unchanged, idle or playing: the beat counter, the chord index,
\* nextNoteTime, beatsPerChord and the resolved chord list are the same
\* after the call as before, and so is every other field but the one the
\* setter stores (it schedules nothing and starts or ends no timer; the
\* next tick reads the new value).  (A step that counts a setter call is a
\* call of the setter its record names.)
C25_SettersKeepPosition ==
  [][(trackCall'.op \in {"setStyle", "setInstrument", "setSwing", "setTempo"}
        /\ ctx'.setterCalls # ctx.setterCalls) =>
       /\ track'.currentBeat = track.currentBeat
       /\ track'.currentChordIndex = track.currentChordIndex
       /\ track'.nextNoteTime = track.nextNoteTime
       /\ track'.beatsPerChord = track.beatsPerChord
       /\ track'.resolvedChords = track.resolvedChords
       /\ track' = [track EXCEPT !.style = track'.style,
                                 !.instrument = track'.instrument,
                                 !.swing = track'.swing,
                                 !.tempo = track'.tempo]
       /\ ctx'.intervals = ctx.intervals]_vars

\* setStyle has been called on a playing track in the middle of a chord
C25_Witness ==
  /\ trackCall.op = "setStyle"
  /\ track.isPlaying
  /\ track.style = "blues"
  /\ track.currentBeat > 0
  /\ track.nextNoteTime > 0

\* the tonic triad of a key: the chord a resolver gives for "I"
Tonic(key) == [ok |-> TRUE, root |-> key, isMajor |-> TRUE, symbol |-> key,
               frequency |-> noteToFrequency(key, 4)]

\* C26: setChords(progression, key?) replaces the resolved chord list by
\* the chords of the progression in the key now current (the key passed, or
\* the key of the track when none is), sets the chord index to 0 and leaves
\* the beat counter, nextNoteTime and the playing state as they were, also
\* while playing; an empty progression gives exactly one chord, the tonic
\* of the current key; the resolved chord list is never empty.  (A step
\* that counts a setter call is a call of the setter its record names.)
C26_SetChordsResetsIndex ==
  [][/\ Len(track'.resolvedChords) >= 1
     /\ (trackCall'.op = "setChords" /\ ctx'.setterCalls # ctx.setterCalls
           /\ ~trackCall'.threw) =>
          LET key == IF trackCall'.key # "" THEN trackCall'.key
                     ELSE track.key
              progression == trackCall'.progression
          IN /\ track'.key = key
             /\ track'.resolvedChords =
                  (IF progression = <<>> THEN <<Tonic(key)>>
                   ELSE [i \in 1 .. Len(progression) |->
                           resolveChord(progression[i], key, 4)])
             /\ track'.currentChordIndex = 0
             /\ track'.currentBeat = track.currentBeat
             /\ track'.nextNoteTime = track.nextNoteTime
             /\ track'.isPlaying = track.isPlaying
             /\ ctx'.intervals = ctx.intervals]_vars

\* setChords has replaced the two chords of a playing track, which had
\* reached the second of them, by three chords in G
C26_Witness ==
  /\ trackCall.op = "setChords"
  /\ ~trackCall.threw
  /\ track.isPlaying
  /\ trackCall.currentChordIndex = 1
  /\ track.currentChordIndex = 0
  /\ track.key = "G"
  /\ Len(track.resolvedChords) = 3
  /\ track.resolvedChords[1].symbol = "Em"

\* setChords([]) has been called while the beat counter was past 0: one
\* chord, the tonic, and the beat counter kept
C26_EmptyProgression ==
  /\ trackCall.op = "setChords"
  /\ trackCall.progression = <<>>
  /\ track.currentBeat > 0
  /\ track.resolvedChords = <<Tonic(track.key)>>

\* the roman numerals and the chord symbols: I .. VII in either case, and a
\* note name C .. B with or without a sharp, with or without a final m
RomanNumerals ==
  {"I", "II", "III", "IV", "V", "VI", "VII",
   "i", "ii", "iii", "iv", "v", "vi", "vii"}
ChordSymbols ==
  {NOTE_NAMES[i] : i \in 1 .. 12} \cup {NOTE_NAMES[i] \o "m" : i \in 1 .. 12}
Recognized(chord) == chord \in RomanNumerals \cup ChordSymbols

\* chords of both kinds, and strings that are neither
TestChords ==
  {"I", "IV", "VII", "ii", "iii", "vi", "vii", "C", "G", "F#", "Am", "F#m",
   "X", "Xm", "VIII", "H", "Bb", "E#", "c", ""}
TestKeys == {"C", "G", "A#"}

AllRecognized(progression) ==
  \A i \in 1 .. Len(progression) : Recognized(progression[i])

\* resolveChord, resolveChordProgression and the resolveChords of the
\* constructor throw for the unrecognized strings and for no other
ResolverThrows ==
  /\ \A chord \in TestChords, key \in TestKeys :
       resolveChord(chord, key, 4).ok <=> Recognized(chord)
  /\ \A p \in ChordProgressions \cup ChordConfigs, key \in TestKeys :
       LET resolved == resolveChordProgression(p, key, 4)
       IN /\ resolved.ok <=> AllRecognized(p)
          /\ Len(resolved.chords) = Len(p)
          /\ resolveChords([key |-> key], p).ok <=> AllRecognized(p)

\* C27: an unrecognized roman numeral or malformed chord symbol is a hard
\* failure: resolveChord throws for it and for nothing else; so do
\* resolveChordProgression, the construction of a BackingTrack and
\* setChords for a progression that holds such an element; the element is
\* never skipped or replaced by a default: a progression that resolves
\* gives one chord per element, and a track never holds a chord list other
\* than one that resolved (after a setChords that threw it holds the list
\* and the chord index it had).
C27_InvalidChordThrows ==
  [][/\ ResolverThrows
     /\ \A i \in 1 .. Len(track.resolvedChords) : track.resolvedChords[i].ok
     /\ \A i \in 1 .. Len(track'.resolvedChords) :
          track'.resolvedChords[i].ok
     /\ (trackCall'.op = "setChords" /\ ctx'.setterCalls # ctx.setterCalls)
          => /\ trackCall'.threw <=> ~AllRecognized(trackCall'.progression)
             /\ trackCall'.threw =>
                  /\ track'.resolvedChords = track.resolvedChords
                  /\ track'.currentChordIndex = track.currentChordIndex
             /\ (~trackCall'.threw /\ trackCall'.progression # <<>>) =>
                  Len(track'.resolvedChords) = Len(trackCall'.progression)
    ]_vars

\* setChords(['Bb', 'V']) has thrown on a playing track, which keeps the
\* chords it was constructed with
C27_Witness ==
  /\ trackCall.op = "setChords"
  /\ trackCall.threw
  /\ trackCall.progression = <<"Bb", "V">>
  /\ track.isPlaying
  /\ Len(track.resolvedChords) = 2
  /\ track.resolvedChords[1].symbol = "Dm"

\* C28: BackingTrack.destroy() is idempotent: the first call ends playback
\* (isActive() false, the timer cancelled, every tracked oscillator stopped)
\* and disconnects the master gain and the limiter; every later call changes
\* nothing, so the two stages are disconnected once on a destroyed track
\* and not at all before.  (A step that ends with a record of destroy() and
\* leaves the clock alone is a call of destroy().)
C28_TrackDestroyIdempotent ==
  [][/\ (trackCall'.op = "destroy" /\ ctx'.currentTime = ctx.currentTime) =>
          IF track.destroyed
          THEN track' = track /\ ctx' = ctx /\ trackCall'.stopped = {}
          ELSE /\ track'.destroyed
               /\ ~track'.isPlaying
               /\ ~track'.schedulerInterval
               /\ ctx'.intervals = 0
               /\ trackCall'.stopped = track.activeOscillators
               /\ track'.activeOscillators = {}
               /\ ctx'.disconnects = ctx.disconnects + 1
     /\ ctx'.disconnects = (IF track'.destroyed THEN 1 ELSE 0)]_vars

\* destroy() has been called again on a track the first destroy() had
\* stopped
C28_Witness ==
  /\ trackCall.op = "destroy"
  /\ trackCall.preDestroyed
  /\ track.destroyed
  /\ track.nextNoteTime > 0
  /\ ctx.disconnects = 1
  /\ ctx.intervals = 0

\* the degree a roman numeral names, and the numerals written in uppercase
NumeralDegree(numeral) ==
  CASE numeral \in {"I", "i"} -> 1
    [] numeral \in {"II", "ii"} -> 2
    [] numeral \in {"III", "iii"} -> 3
    [] numeral \in {"IV", "iv"} -> 4
    [] numeral \in {"V", "v"} -> 5
    [] numeral \in {"VI", "vi"} -> 6
    [] numeral \in {"VII", "vii"} -> 7
UpperNumerals == {"I", "II", "III", "IV", "V", "VI", "VII"}

\* the twelve keys in chromatic order and the semitones of the major scale
Chromatic ==
  <<"C", "C#", "D", "D#", "E", "F", "F#", "G", "G#", "A", "A#", "B">>
MajorScale == <<0, 2, 4, 5, 7, 9, 11>>
Semitone(key) == (CHOOSE i \in 1 .. 12 : Chromatic[i] = key) - 1

\* what the chord of a numeral in a key is to be
ExpectedChord(numeral, key) ==
  LET root == Chromatic[((Semitone(key) + MajorScale[NumeralDegree(numeral)])
                           % 12) + 1]
      isMajor == numeral \in UpperNumerals
  IN [root |-> root, isMajor |-> isMajor,
      symbol |-> IF isMajor THEN root ELSE root \o "m"]

\* resolveChord gives the expected chord for each of the fourteen numerals
\* in each of the twelve keys, and the two progressions of the examples
\* resolve to G, C, D, G and Dm, G, C
NumeralsResolve ==
  /\ \A numeral \in RomanNumerals, i \in 1 .. 12 :
       LET chord == resolveChord(numeral, Chromatic[i], 4)
           expected == ExpectedChord(numeral, Chromatic[i])
       IN /\ chord.ok
          /\ chord.root = expected.root
          /\ chord.isMajor = expected.isMajor
          /\ chord.symbol = expected.symbol
  /\ LET r == resolveChordProgression(<<"I", "IV", "V", "I">>, "G", 4)
     IN r.ok /\ [i \in 1 .. 4 |-> r.chords[i].root] = <<"G", "C", "D", "G">>
  /\ LET r == resolveChordProgression(<<"ii", "V", "I">>, "C", 4)
     IN r.ok /\ [i \in 1 .. 3 |-> r.chords[i].symbol] = <<"Dm", "G", "C">>

\* C32: for every key and every roman numeral of degree d in 1 .. 7,
\* resolveChord gives the root at (key semitone + major-scale offset of d)
\* mod 12, isMajor exactly for a numeral in uppercase, and the symbol root or
\* root + "m"; resolveChordProgression does so element by element, keeping
\* length and order, so a progression of numerals that setChords has stored
\* is the list of the expected chords in the key of the track.
C32_NumeralsResolve ==
  /\ NumeralsResolve
  /\ (trackCall.op = "setChords" /\ ~trackCall.threw
        /\ trackCall.progression # <<>>
        /\ \A i \in 1 .. Len(trackCall.progression) :
             trackCall.progression[i] \in RomanNumerals) =>
       /\ Len(track.resolvedChords) = Len(trackCall.progression)
       /\ \A i \in 1 .. Len(trackCall.progression) :
            LET chord == track.resolvedChords[i]
                expected == ExpectedChord(trackCall.progression[i], track.key)
            IN /\ chord.root = expected.root
               /\ chord.isMajor = expected.isMajor
               /\ chord.symbol = expected.symbol

\* setChords(['I', 'IV', 'V', 'I'], 'G') has stored the chords G, C, D, G
C32_Witness ==
  /\ trackCall.op = "setChords"
  /\ trackCall.progression = <<"I", "IV", "V", "I">>
  /\ track.key = "G"
  /\ [i \in 1 .. 4 |-> track.resolvedChords[i].symbol] =
       <<"G", "C", "D", "G">>

\* C36: in every reachable state the tick timer exists exactly when
\* isPlaying is true, and at most one timer exists, over any interleaving
\* of play, stop, destroy, the setters and the ticks.
C36_OneTimerWhilePlaying ==
  /\ ctx.intervals \in {0, 1}
  /\ (ctx.intervals = 1) <=> track.isPlaying
  /\ track.schedulerInterval <=> track.isPlaying
  /\ track.destroyed => ctx.intervals = 0

\* a track that was played, stopped and played again has its one timer
C36_Witness ==
  /\ trackCall.op = "play"
  /\ track.isPlaying
  /\ ctx.intervals = 1
  /\ ctx.currentTime > 0
  /\ track.nextNoteTime = ctx.currentTime
  /\ track.currentBeat = 0
  /\ ctx.setterCalls = 1

\* C37: every scheduler tick terminates: in every state reachable through
\* the constructor configuration and the setters, a run of the lookahead
\* loop leaves the loop, nextNoteTime having reached the end of the
\* lookahead window after finitely many beats.
C37_EveryTickTerminates ==
  trackCall.op = "tick" =>
    /\ trackCall.completed
    /\ Len(trackCall.beats) < MaxLoop
    /\ ~InLookahead(track.nextNoteTime, trackCall.now + LOOKAHEAD_SECONDS)

\* a tick of a track whose tempo went through setTempo leaves the loop
C37_AfterSetTempo ==
  /\ trackCall.op = "tick"
  /\ trackCall.completed
  /\ ctx.setterCalls = 1
  /\ track.tempo = 20
  /\ Len(trackCall.beats) >= 1

\* the sum of the elements of a sequence of numbers
RECURSIVE SumSeq(_)
SumSeq(seq) == IF seq = <<>> THEN 0 ELSE Head(seq) + SumSeq(Tail(seq))

\* C38: within one play session every beat is scheduled exactly once: the
\* k-th scheduled beat starts at the clock value read by play() plus the sum
\* of the beat durations 60 / tempo in force when each earlier beat was
\* scheduled, whenever the ticks fire; the beat scheduled next follows the
\* last one in the same way.
C38_BeatsFollowOnePlayClock ==
  LET session == trackCall.session
  IN /\ Len(session.durations) = Len(session.beats)
     /\ \A k \in 1 .. Len(session.beats) :
          session.beats[k] =
            session.start + SumSeq(SubSeq(session.durations, 1, k - 1))
     /\ \A k1, k2 \in 1 .. Len(session.beats) :
          session.beats[k1] = session.beats[k2] => k1 = k2
     /\ track.isPlaying =>
          track.nextNoteTime = session.start + SumSeq(session.durations)

\* a session begun at a running clock whose beats were scheduled by a late
\* tick in a burst and by a later tick at another tempo
C38_Witness ==
  /\ trackCall.op = "tick"
  /\ trackCall.session.start > 0
  /\ Len(trackCall.beats) >= 1
  /\ Len(trackCall.session.beats) >= Len(trackCall.beats) + 2
  /\ \E k \in 1 .. Len(trackCall.session.durations) :
       trackCall.session.durations[k] # trackCall.session.durations[1]

\* C39: the set of tracked transient voices contains exactly the voices
\* started that have neither ended nor been cleared by stop(): a tick adds
\* one new voice for each note it schedules, stop() empties the set, and an
\* 'ended' callback removes its own voice and no other, also when it arrives
\* after stop() or after a later play() and voices were scheduled since;
\* nothing else changes the set.
C39_TableTracksLiveVoices ==
  [][LET active == track.activeOscillators
         known == active \cup ctx.stale \cup ctx.ended
         new == track'.activeOscillators \ active
     IN /\ active \cap (ctx.stale \cup ctx.ended) = {}
        /\ track'.activeOscillators \cap (ctx'.stale \cup ctx'.ended) = {}
        /\ IF ctx'.ended # ctx.ended
           THEN /\ ctx'.ended = ctx.ended \cup {trackCall'.value}
                /\ trackCall'.value \in active \cup ctx.stale
                /\ track'.activeOscillators = active \ {trackCall'.value}
           ELSE IF ctx'.intervals < ctx.intervals
           THEN /\ track'.activeOscillators = {}
                /\ ctx'.stale = ctx.stale \cup active
           ELSE IF trackCall'.op = "tick" /\ ctx'.currentTime = ctx.currentTime
           THEN /\ active \subseteq track'.activeOscillators
                /\ Cardinality(new) = Len(trackCall'.events)
                /\ new \cap known = {}
                /\ ctx'.stale = ctx.stale
           ELSE track'.activeOscillators = active]_vars

\* the 'ended' event of a voice that stop() had stopped has arrived after a
\* later play() and a tick that scheduled voices, which are still tracked
C39_Witness ==
  /\ trackCall.op = "ended"
  /\ trackCall.value \in trackCall.stopped
  /\ trackCall.value \in ctx.ended
  /\ track.isPlaying
  /\ \E o \in track.activeOscillators : o > trackCall.value

\* a voice has played to its end while the track plays on
C39_NaturalEnd ==
  /\ trackCall.op = "ended"
  /\ trackCall.stopped = {}
  /\ track.isPlaying
  /\ track.activeOscillators # {}

C40_FailedSetChordsChangesKeyOnly ==
  [][(/\ trackCall'.op = "setChords"
      /\ ctx'.setterCalls # ctx.setterCalls
      /\ trackCall'.threw)
       => track' = [track EXCEPT
                      !.key = IF trackCall'.key # "" THEN trackCall'.key
                              ELSE @]]_vars

\* setChords(['I', 'X'], 'G') has thrown and the track is left in G
C40_KeyChanged ==
  /\ trackCall.op = "setChords"
  /\ trackCall.threw
  /\ trackCall.key = "G"
  /\ track.key = "G"
  /\ track.resolvedChords[1].symbol = "Dm"

\* a run of the lookahead loop fails to leave the loop only with a tempo
\* that is not positive
HungOnlyWithoutPositiveTempo == trackCall.completed \/ track.tempo <= 0

====
